---- MODULE Spec2Model ----
(***************************************************************************)
(* Model of the incremental-review reconciler of ouradvocates/ai-reviewer: *)
(* src/src/pull_request.ts (handlePullRequest, submitReview) and           *)
(* src/src/messages.ts (buildLoadingMessage, buildOverviewMessage,         *)
(* buildReviewSummary).                                                    *)
(*                                                                         *)
(* Text is a sequence of characters.  A character is a TLA+ string; a      *)
(* multi-letter string such as "commits" or "<details>" stands for a run   *)
(* of letters that no operation of the program splits.                     *)
(***************************************************************************)
EXTENDS Integers, Sequences, FiniteSets, TLC

VARIABLES
  \* ---- payload codec (SpecCodec) ----
  cPc,        \* "input" | "encoded" | "decoded"
  cIn,        \* the commits handed to buildOverviewMessage
  cSummary,   \* the rendered summary text handed to buildOverviewMessage
  cBody,      \* the overview comment body
  cOut,       \* what handlePullRequest recovers from cBody
  \* ---- the host and the invocations of handlePullRequest (Spec) ----
  hostCommits,  \* the PR's commits as pulls.listCommits returns them (SHAs)
  comments,     \* the PR's issue comments: sequence of [id, body]
  local,        \* per invocation: position and local variables
  lastWritten,  \* history: commits of the payload of the last final overview write
  \* ---- the reviews of the PR and the runs of submitReview (SpecSummary) ----
  reviews,      \* the PR's reviews, oldest first: body, and for a summary the
                \* bot rendered (own) the lists it rendered
  sRun,         \* the latest run: its inputs, what it parsed and what it merged
  \* ---- one call of submitReview, step by step (SpecSubmit) ----
  sub,          \* its position, its comments, the host calls it issued
  \* ---- one call of a tracker function of jira.ts (SpecTracker) ----
  tk            \* the function, its input, the tracker's answers, its result

codecVars == <<cPc, cIn, cSummary, cBody, cOut>>
prVars == <<hostCommits, comments, local, lastWritten>>
sumVars == <<reviews, sRun, sub, tk>>
vars == <<codecVars, prVars, sumVars>>

----------------------------------------------------------------------------
(* Characters with a role in JSON and in the markers. *)
Q  == "\""
BS == "\\"
NL == "\n"

Min(S) == CHOOSE x \in S : \A y \in S : x <= y

\* text holds pat at position i
MatchesAt(text, pat, i) == \A m \in 1..Len(pat) : text[i + m - 1] = pat[m]

\* String.prototype.indexOf(pat, from) on texts, 1-based; 0 when absent
IndexOf(text, pat, from) ==
  LET cands == { i \in from..(Len(text) - Len(pat) + 1) : MatchesAt(text, pat, i) }
  IN IF cands = {} THEN 0 ELSE Min(cands)

\* the next occurrence of pat at least skip characters after a match at i;
\* 0 when there was no match at i or there is no such occurrence
IndexAfter(text, pat, i, skip) == IF i = 0 THEN 0 ELSE IndexOf(text, pat, i + skip)

\* String.prototype.includes
Includes(text, pat) == IndexOf(text, pat, 1) # 0

\* String.prototype.split(sep) for a non-empty separator: the pieces between
\* successive non-overlapping occurrences of sep
RECURSIVE Split(_, _)
Split(text, sep) ==
  LET i == IndexOf(text, sep, 1)
  IN IF i = 0 THEN <<text>>
     ELSE <<SubSeq(text, 1, i - 1)>>
            \o Split(SubSeq(text, i + Len(sep), Len(text)), sep)

----------------------------------------------------------------------------
(* messages.ts: the markers. *)
OVERVIEW_MESSAGE_SIGNATURE == <<NL, "<!-- presubmit.ai: overview message -->">>
PAYLOAD_TAG_OPEN  == <<NL, "<!-- presubmit.ai: payload --">>
PAYLOAD_TAG_CLOSE == <<NL, "-- presubmit.ai: payload -->">>

----------------------------------------------------------------------------
(* JSON.stringify of {commits: string[]}. *)

\* the escape JSON.stringify applies to one character of a string
EscapeCharDropsQuote(c) ==
  IF c = BS THEN <<BS, BS>> ELSE IF c = NL THEN <<BS, "n">> ELSE <<c>>

EscapeChar(c) ==
  IF c = Q  THEN <<BS, Q>>
  ELSE IF c = BS THEN <<BS, BS>>
  ELSE IF c = NL THEN <<BS, "n">>
  ELSE <<c>>

RECURSIVE EscapeString(_)
EscapeString(s) ==
  IF s = <<>> THEN <<>> ELSE EscapeChar(Head(s)) \o EscapeString(Tail(s))

StringifyString(s) == <<Q>> \o EscapeString(s) \o <<Q>>

RECURSIVE StringifyElements(_)
StringifyElements(ss) ==
  IF ss = <<>> THEN <<>>
  ELSE IF Len(ss) = 1 THEN StringifyString(ss[1])
  ELSE StringifyString(ss[1]) \o <<",">> \o StringifyElements(Tail(ss))

JSONStringify(commits) ==
  <<"{", Q, "commits", Q, ":", "[">> \o StringifyElements(commits) \o <<"]", "}">>

----------------------------------------------------------------------------
(* JSON.parse, for the grammar  null | {} | {"commits":[string,...]}  with  *)
(* the string escapes \" \\ \n.  Any other text is a SyntaxError; the       *)
(* texts the model feeds it are chosen inside that reading.                 *)

At(t, i) == IF i >= 1 /\ i <= Len(t) THEN t[i] ELSE "<eof>"

\* the characters of a JSON string whose opening quote is at j - 1
RECURSIVE ParseStringFrom(_, _, _)
ParseStringFrom(t, j, acc) ==
  LET c == At(t, j)
  IN IF c = Q THEN [ok |-> TRUE, val |-> acc, next |-> j + 1]
     ELSE IF c = "<eof>" \/ c = NL THEN [ok |-> FALSE, val |-> <<>>, next |-> j]
     ELSE IF c = BS
       THEN LET e == At(t, j + 1)
            IN IF e = Q THEN ParseStringFrom(t, j + 2, Append(acc, Q))
               ELSE IF e = BS THEN ParseStringFrom(t, j + 2, Append(acc, BS))
               ELSE IF e = "n" THEN ParseStringFrom(t, j + 2, Append(acc, NL))
               ELSE [ok |-> FALSE, val |-> <<>>, next |-> j]
     ELSE ParseStringFrom(t, j + 1, Append(acc, c))

\* the elements of an array of strings, the next element starting at j
RECURSIVE ParseElementsFrom(_, _, _)
ParseElementsFrom(t, j, acc) ==
  IF At(t, j) # Q THEN [ok |-> FALSE, val |-> <<>>, next |-> j]
  ELSE LET s == ParseStringFrom(t, j + 1, <<>>)
       IN IF ~s.ok THEN [ok |-> FALSE, val |-> <<>>, next |-> j]
          ELSE IF At(t, s.next) = "," THEN ParseElementsFrom(t, s.next + 1, Append(acc, s.val))
          ELSE IF At(t, s.next) = "]" THEN [ok |-> TRUE, val |-> Append(acc, s.val), next |-> s.next + 1]
          ELSE [ok |-> FALSE, val |-> <<>>, next |-> j]

ParseArray(t, i) ==
  IF At(t, i) # "[" THEN [ok |-> FALSE, val |-> <<>>, next |-> i]
  ELSE IF At(t, i + 1) = "]" THEN [ok |-> TRUE, val |-> <<>>, next |-> i + 2]
  ELSE ParseElementsFrom(t, i + 1, <<>>)

\* kind: "SyntaxError" | "null" | "object"; hasCommits: the object has a
\* commits property (reading it gives undefined otherwise); commits: its value
JSONParse(t) ==
  IF t = <<"null">> THEN [kind |-> "null", hasCommits |-> FALSE, commits |-> <<>>]
  ELSE IF t = <<"{", "}">> THEN [kind |-> "object", hasCommits |-> FALSE, commits |-> <<>>]
  ELSE IF Len(t) >= 5 /\ SubSeq(t, 1, 5) = <<"{", Q, "commits", Q, ":">>
    THEN LET a == ParseArray(t, 6)
         IN IF a.ok /\ At(t, a.next) = "}" /\ a.next = Len(t)
              THEN [kind |-> "object", hasCommits |-> TRUE, commits |-> a.val]
              ELSE [kind |-> "SyntaxError", hasCommits |-> FALSE, commits |-> <<>>]
  ELSE [kind |-> "SyntaxError", hasCommits |-> FALSE, commits |-> <<>>]

----------------------------------------------------------------------------
(* messages.ts buildOverviewMessage.  `summary` is the text its loop over   *)
(* the summarizer's files renders (icons, file names, titles, summaries).   *)
buildOverviewMessage(summary, commits) ==
  <<"### Changes">> \o summary
    \o OVERVIEW_MESSAGE_SIGNATURE
    \o PAYLOAD_TAG_OPEN \o JSONStringify(commits) \o PAYLOAD_TAG_CLOSE

(* pull_request.ts 165-174: the try block that recovers the payload.        *)
(* caught: an exception was raised inside the try and swallowed by the      *)
(* catch, so commitsReviewed keeps its initial [].  Otherwise               *)
(* commitsReviewed is payload.commits: defined is FALSE when the parsed     *)
(* object has no such property, and the variable then holds undefined.      *)
DecodePayloadOptionalChain(body) ==
  LET parts == Split(body, PAYLOAD_TAG_OPEN)
      inner == IF Len(parts) < 2 THEN <<>> ELSE Split(parts[2], PAYLOAD_TAG_CLOSE)[1]
      text  == IF inner = <<>> THEN <<"{", "}">> ELSE inner
      v     == JSONParse(text)
  IN IF v.kind = "object"
       THEN [caught |-> FALSE, defined |-> v.hasCommits, commitsReviewed |-> v.commits]
       ELSE [caught |-> TRUE, defined |-> TRUE, commitsReviewed |-> <<>>]

DecodePayload(body) ==
  LET parts == Split(body, PAYLOAD_TAG_OPEN)
  IN IF Len(parts) < 2
       \* split(PAYLOAD_TAG_OPEN)[1] is undefined: .split raises a TypeError
       THEN [caught |-> TRUE, defined |-> TRUE, commitsReviewed |-> <<>>]
       ELSE LET inner == Split(parts[2], PAYLOAD_TAG_CLOSE)[1]
                text  == IF inner = <<>> THEN <<"{", "}">> ELSE inner
                v     == JSONParse(text)
            IN IF v.kind = "object"
                 THEN [caught |-> FALSE, defined |-> v.hasCommits,
                       commitsReviewed |-> v.commits]
                 \* SyntaxError, or null.commits raising a TypeError
                 ELSE [caught |-> TRUE, defined |-> TRUE, commitsReviewed |-> <<>>]

----------------------------------------------------------------------------
(* SpecCodec: buildOverviewMessage followed by the payload decoding of      *)
(* handlePullRequest, on commit strings and summaries that carry the        *)
(* characters the encoding has to protect.                                  *)

MaxCodecCommits == 2

CodecStrings ==
  { <<>>, <<"a">>, <<"a", "b">>, <<Q>>, <<BS>>, <<NL>>, <<BS, Q>>, <<BS, "n">>,
    <<"a", Q, ",", Q, "b">>, <<"]", "}">>,
    PAYLOAD_TAG_OPEN, PAYLOAD_TAG_CLOSE }

CodecCommitLists ==
  UNION { [1..n -> CodecStrings] : n \in 0..MaxCodecCommits }

CodecSummaries ==
  { <<>>, <<"t", NL, "s">>, <<"{", Q, "commits", Q, ":", "[", "]", "}">>,
    <<"s">> \o PAYLOAD_TAG_OPEN \o <<"x">>,
    <<"s">> \o PAYLOAD_TAG_CLOSE,
    \* a file summary that holds a payload block of its own
    <<"s">> \o PAYLOAD_TAG_OPEN \o JSONStringify(<< <<"a">> >>) \o PAYLOAD_TAG_CLOSE }

HasPayloadMarker(text) ==
  Includes(text, PAYLOAD_TAG_OPEN) \/ Includes(text, PAYLOAD_TAG_CLOSE)

CodecInit ==
  /\ cPc = "input"
  /\ cIn \in CodecCommitLists
  /\ cSummary \in CodecSummaries
  /\ cBody = <<>>
  /\ cOut = [caught |-> FALSE, defined |-> TRUE, commitsReviewed |-> <<>>]
  /\ hostCommits = <<>> /\ comments = <<>> /\ local = <<>> /\ lastWritten = <<>>
  /\ reviews = <<>> /\ sRun = <<>> /\ sub = <<>> /\ tk = <<>>

CodecEncode ==
  /\ cPc = "input"
  /\ cBody' = buildOverviewMessage(cSummary, cIn)
  /\ cPc' = "encoded"
  /\ UNCHANGED <<cIn, cSummary, cOut, prVars, sumVars>>

CodecDecode ==
  /\ cPc = "encoded"
  /\ cOut' = DecodePayload(cBody)
  /\ cPc' = "decoded"
  /\ UNCHANGED <<cIn, cSummary, cBody, prVars, sumVars>>

CodecNext == CodecEncode \/ CodecDecode

SpecCodec == CodecInit /\ [][CodecNext]_vars

\* C3: decoding the payload block of buildOverviewMessage(summary, commits)
\* returns commits, element for element and in order, whenever the summary
\* text holds no payload marker.
C3_PayloadRoundTrip ==
  (cPc = "decoded" /\ ~HasPayloadMarker(cSummary))
    => (~cOut.caught /\ cOut.defined /\ cOut.commitsReviewed = cIn)

\* a decoded list of two strings that need escaping
C3_Witness ==
  /\ cPc = "decoded"
  /\ ~HasPayloadMarker(cSummary)
  /\ cIn = << <<"a", Q, ",", Q, "b">>, PAYLOAD_TAG_CLOSE >>
  /\ cOut.commitsReviewed = cIn

\* C36: decoding the payload block of buildOverviewMessage(summary, commits)
\* returns commits for every summary text, one that holds the payload
\* markers included: the text before the payload block has no effect on the
\* commits recovered.
C36_SummaryCannotChangePayload ==
  cPc = "decoded" => (~cOut.caught /\ cOut.defined /\ cOut.commitsReviewed = cIn)

----------------------------------------------------------------------------
(* The host: the PR's commits, files and issue comments. *)

ShaPrefixLen == 7

Sha(p, s) == <<p, p, p, p, p, p, p, s>>

\* the SHAs a PR can hold, in the order they are pushed; the first two share
\* their first 7 characters
ShaPool == << Sha("a", "1"), Sha("a", "2"), Sha("b", "3"), Sha("c", "4") >>
BaseSha == Sha("0", "0")

MaxCommits == 3

PoolIndex(sha) == CHOOSE k \in 1..Len(ShaPool) : ShaPool[k] = sha

Range(s) == { s[k] : k \in 1..Len(s) }
Last(s) == s[Len(s)]

RECURSIVE Reverse(_)
Reverse(s) == IF s = <<>> THEN <<>> ELSE Append(Reverse(Tail(s)), Head(s))

\* String.prototype.slice(0, 7)
Sha7(sha) == SubSeq(sha, 1, IF Len(sha) < ShaPrefixLen THEN Len(sha) ELSE ShaPrefixLen)

\* the files each commit of the pool touches
Touched(sha) ==
  LET k == PoolIndex(sha)
  IN IF k = 1 THEN {"f1"}
     ELSE IF k = 2 THEN {"f2"}
     ELSE IF k = 3 THEN {"f1", "f3"}
     ELSE {"f2"}

FileOrder == <<"f1", "f2", "f3">>

RECURSIVE KeepFiles(_, _)
KeepFiles(fs, keep) ==
  IF fs = <<>> THEN <<>>
  ELSE IF Head(fs) \in keep THEN <<Head(fs)>> \o KeepFiles(Tail(fs), keep)
  ELSE KeepFiles(Tail(fs), keep)

\* pulls.listFiles: the file names of the PR
ListFiles(commits) ==
  KeepFiles(FileOrder, UNION { Touched(c) : c \in Range(commits) })

\* repos.compareCommits(base, head): the outcomes the host can give.  With
\* both ends on the PR's commit list the files are those touched after base up
\* to head; a base the host no longer lists (or never had) is a failure or a
\* diff over all the PR's files.  Any call can fail, come without a files
\* property ("nofiles") or with an empty file list.
CompareOutcomes(base, head, commits) ==
  LET pos(x) == { k \in 1..Len(commits) : commits[k] = x }
      onList == pos(base) # {} /\ pos(head) # {}
      between == IF onList
                   THEN { commits[k] : k \in (Min(pos(base)) + 1)..Min(pos(head)) }
                   ELSE Range(commits)
  IN { [kind |-> "throws", files |-> <<>>],
       [kind |-> "nofiles", files |-> <<>>],
       \* two commits with the same tree: an empty file list
       [kind |-> "ok", files |-> <<>>],
       [kind |-> "ok",
        files |-> KeepFiles(FileOrder, UNION { Touched(c) : c \in between })],
       \* the host fixes no order of the files of a comparison
       [kind |-> "ok",
        files |-> Reverse(KeepFiles(FileOrder, UNION { Touched(c) : c \in between }))] }

FindOverviewByPayload(cs) ==
  LET hits == { k \in 1..Len(cs) : Includes(cs[k].body, PAYLOAD_TAG_OPEN) }
  IN IF hits = {} THEN 0 ELSE Min(hits)

\* existingComments.find(c => c.body?.includes(OVERVIEW_MESSAGE_SIGNATURE)):
\* the position of the first such comment, 0 when there is none
FindOverview(cs) ==
  LET hits == { k \in 1..Len(cs) : Includes(cs[k].body, OVERVIEW_MESSAGE_SIGNATURE) }
  IN IF hits = {} THEN 0 ELSE Min(hits)

\* a write that leaves a comment alone once it holds a payload
UpdateCommentKeepingPayload(cs, id, body) ==
  [k \in 1..Len(cs) |->
     IF cs[k].id = id /\ ~Includes(cs[k].body, PAYLOAD_TAG_OPEN)
       THEN [id |-> id, body |-> body] ELSE cs[k]]

\* issues.updateComment(comment_id, body)
UpdateComment(cs, id, body) ==
  [k \in 1..Len(cs) |-> IF cs[k].id = id THEN [id |-> id, body |-> body] ELSE cs[k]]

\* issues.createComment(body): the host numbers the comment
CreateComment(cs, body) == Append(cs, [id |-> Len(cs) + 1, body |-> body])

----------------------------------------------------------------------------
(* messages.ts buildLoadingMessage: the text.  The function also reverses   *)
(* its commits argument in place (commits.reverse()); the caller's array    *)
(* is changed by that, which action Loading carries out.                    *)
RECURSIVE RenderLoadingCommits(_)
RenderLoadingCommits(cs) ==
  IF cs = <<>> THEN <<>>
  ELSE <<"- [">> \o Sha7(Head(cs)) \o <<"](">> \o Head(cs) \o <<")", NL>>
         \o RenderLoadingCommits(Tail(cs))

buildLoadingMessage(baseCommit, commits, fileDiffs) ==
  <<"Analyzing changes from base (">> \o Sha7(baseCommit)
    \o <<") to latest commit (">> \o Sha7(Last(commits)) \o <<")", NL>>
    \o RenderLoadingCommits(Reverse(commits))
    \o <<"Files being considered">> \o fileDiffs
    \o OVERVIEW_MESSAGE_SIGNATURE

----------------------------------------------------------------------------
(* pull_request.ts shouldIgnorePullRequest and the events. *)

\* a conversion that leaves every character as it is
KeepCase(c) == c

ToLowerCase(c) ==
  IF c = "@PreSubmit" THEN "@presubmit"
  ELSE IF c = "@PresubmitAI" THEN "@presubmitai"
  ELSE IF c = "IGNORE" THEN "ignore"
  ELSE IF c = "Skip" THEN "skip"
  ELSE IF c = "Critical" THEN "critical"
  ELSE c

LowerText(t) == [k \in 1..Len(t) |-> ToLowerCase(t[k])]

ignorePhrases ==
  { <<"@presubmit", " ", "ignore">>, <<"@presubmit", ":", " ", "ignore">>,
    <<"@presubmit", " ", "skip">>, <<"@presubmit", ":", " ", "skip">>,
    <<"@presubmitai", " ", "ignore">>, <<"@presubmitai", ":", " ", "ignore">>,
    <<"@presubmitai", " ", "skip">>, <<"@presubmitai", ":", " ", "skip">> }

shouldIgnorePullRequest(body) ==
  \E phrase \in ignorePhrases : Includes(LowerText(body), LowerText(phrase))

\* body.match(/\[([A-Z]+-\d+)\]/): a bracketed ticket key
TicketKeys == {"PROJ-42"}
HasTicketKey(body) ==
  \E k \in 1..Len(body) :
    /\ k + 2 <= Len(body)
    /\ body[k] = "[" /\ body[k + 1] \in TicketKeys /\ body[k + 2] = "]"

\* title.includes("@presubmitai") || title.includes("@presubmit")
TitleMentions(title) ==
  \E k \in 1..Len(title) : title[k] \in {"@presubmit", "@presubmitai"}

PlainBody  == <<"fix", " ", "login">>
PlainTitle == <<"Add", " ", "login">>

Event(name, hasPR, action, body, title) ==
  [name |-> name, hasPullRequest |-> hasPR, action |-> action,
   body |-> body, title |-> title]

Events ==
  { Event("pull_request", TRUE, "synchronize", PlainBody, PlainTitle),
    Event("pull_request_target", TRUE, "synchronize", PlainBody,
          <<"@presubmit", " ", "title">>),
    Event("pull_request", TRUE, "opened", PlainBody, PlainTitle),
    Event("pull_request", TRUE, "reopened", PlainBody, PlainTitle),
    Event("pull_request", TRUE, "closed", PlainBody, PlainTitle),
    Event("pull_request", TRUE, "closed", <<"Relates to ", "[", "PROJ-42", "]">>, PlainTitle),
    Event("pull_request", TRUE, "synchronize", <<"wip", " ", "@PreSubmit", " ", "IGNORE">>, PlainTitle),
    Event("pull_request", TRUE, "opened", <<"@PresubmitAI", " ", "Skip">>, PlainTitle),
    Event("pull_request_target", TRUE, "reopened", <<"@presubmit", ":", " ", "skip">>, PlainTitle),
    Event("pull_request", TRUE, "closed",
          <<"[", "PROJ-42", "]", " ", "@presubmitai", ":", " ", "IGNORE">>, PlainTitle),
    Event("pull_request", FALSE, "synchronize", PlainBody, PlainTitle),
    Event("push", TRUE, "synchronize", PlainBody, PlainTitle) }

NoEvent == Event("", FALSE, "", <<>>, <<>>)

----------------------------------------------------------------------------
(* The invocations of handlePullRequest. *)

Invs == {1, 2}

\* the invocation that runs when invocations do not overlap
Sequential == {1}

\* lastCommitReviewed = null
Null == <<>>

\* incrementalDiff = null
NoDiff == [kind |-> "null", files |-> <<>>]

Idle ==
  [pc |-> "idle", ev |-> NoEvent, headSha |-> <<>>,
   commits |-> <<>>,            \* const commits (line 127)
   aliased |-> FALSE,           \* commitsToReview is the array commits itself
   overviewId |-> 0,            \* overviewComment.id, 0 when undefined
   overviewBody |-> <<>>,       \* overviewComment.body as read
   files |-> <<>>, filesToReview |-> <<>>,
   commitsReviewed |-> <<>>, lastCommitReviewed |-> Null,
   incrementalDiff |-> NoDiff,  \* what compareCommits returned, if called
   commitsToReview |-> <<>>,
   summary |-> <<>>,
   calls |-> <<>>,              \* the external calls issued, in order
   outcome |-> ""]              \* "returned:..." or "threw:..." once done

MutatingCalls ==
  {"createComment", "updateComment", "pulls.update", "createReview",
   "submitReview", "createReviewComment"}

Done(l, how) == [l EXCEPT !.pc = "done", !.outcome = how]
Log(l, cs) == [l EXCEPT !.calls = @ \o cs]

NoneRunning == \A j \in Invs : local[j].pc = "idle"

\* the texts the summarizer's files render to
SummaryTexts == { <<"t", NL, "s">> }

\* commits.filter((c) => !commitsReviewed.includes(c.sha))
RECURSIVE CommitsReviewedOnly(_, _)
CommitsReviewedOnly(commits, commitsReviewed) ==
  IF commits = <<>> THEN <<>>
  ELSE IF \E j \in 1..Len(commitsReviewed) : commitsReviewed[j] = Head(commits)
    THEN <<Head(commits)>> \o CommitsReviewedOnly(Tail(commits), commitsReviewed)
    ELSE CommitsReviewedOnly(Tail(commits), commitsReviewed)

CommitsNotReviewedByPrefix(commits, commitsReviewed) ==
  LET keep == { k \in 1..Len(commits) :
                  \A j \in 1..Len(commitsReviewed) :
                     Sha7(commitsReviewed[j]) # Sha7(commits[k]) }
      F[k \in 0..Len(commits)] ==
        IF k = 0 THEN <<>>
        ELSE IF k \in keep THEN Append(F[k - 1], commits[k]) ELSE F[k - 1]
  IN F[Len(commits)]

RECURSIVE CommitsNotReviewed(_, _)
CommitsNotReviewed(commits, commitsReviewed) ==
  IF commits = <<>> THEN <<>>
  ELSE IF \E j \in 1..Len(commitsReviewed) : commitsReviewed[j] = Head(commits)
    THEN CommitsNotReviewed(Tail(commits), commitsReviewed)
    ELSE <<Head(commits)>> \o CommitsNotReviewed(Tail(commits), commitsReviewed)

FilesNotIn(filesToReview, files) ==
  KeepFiles(filesToReview, Range(filesToReview) \ Range(files))

\* filesToReview.filter((f) => files.some((f2) => f2.filename === f.filename))
FilesIn(filesToReview, files) == KeepFiles(filesToReview, Range(files))

----------------------------------------------------------------------------
(* handlePullRequest, one action per await. *)

\* an event check that lets every event name through
AnyEvent(name) == TRUE

\* lines 22-25: eventName is "pull_request" or "pull_request_target"
SupportedEvent(name) == name \in {"pull_request", "pull_request_target"}

\* lines 20-51: the event checks, the ignore directive, the closed event
StartBody(i, ev) ==
  LET l0 == [Idle EXCEPT !.ev = ev, !.headSha = Last(hostCommits)]
  IN /\ local[i].pc = "idle"
     /\ hostCommits # <<>>
     /\ local' = [local EXCEPT ![i] =
          IF ~SupportedEvent(ev.name)
            THEN Done(l0, "returned:unsupported")
          ELSE IF ~ev.hasPullRequest
            THEN Done(l0, "returned:nopullrequest")
          ELSE IF shouldIgnorePullRequest(ev.body)
            THEN Done(l0, "returned:ignored")
          ELSE IF ev.action = "closed" /\ HasTicketKey(ev.body)
            THEN Done(Log(l0, <<"updateTicketState">>), "returned:closed")
          ELSE IF ev.action \in {"opened", "reopened"}
            THEN [l0 EXCEPT !.pc = "opened"]
          ELSE [l0 EXCEPT !.pc = "listCommits"]]
     /\ UNCHANGED <<hostCommits, comments, lastWritten, codecVars, sumVars>>

\* invocations that do not overlap
Start(i, ev) == NoneRunning /\ StartBody(i, ev)

\* lines 53-124: description, ticket and title of a new PR
OpenedBlock(i) ==
  /\ local[i].pc = "opened"
  /\ \E summarized \in BOOLEAN, ticket \in {"branch", "search", "create", "none"} :
       local' = [local EXCEPT ![i] =
         IF ~summarized
           THEN Done(Log(@, <<"listCommits", "listFiles", "runSummaryPrompt">>),
                     "threw:descriptionSummarizer")
           ELSE [Log(@, <<"listCommits", "listFiles", "runSummaryPrompt",
                          "findTicketFromBranch">>
                        \o (IF ticket = "branch" THEN <<>> ELSE <<"searchRelatedTickets">>)
                        \o (IF ticket \in {"create", "none"} THEN <<"createJiraTicket">> ELSE <<>>)
                        \o <<"fillPRTemplate", "pulls.update">>)
                 EXCEPT !.pc = "listCommits"]]
  /\ UNCHANGED <<hostCommits, comments, lastWritten, codecVars, sumVars>>

\* lines 126-131
ListCommits(i) ==
  /\ local[i].pc = "listCommits"
  /\ local' = [local EXCEPT ![i] =
       [Log(@, <<"listCommits">>) EXCEPT !.commits = hostCommits, !.pc = "listComments"]]
  /\ UNCHANGED <<hostCommits, comments, lastWritten, codecVars, sumVars>>

\* lines 133-141
ListComments(i) ==
  /\ local[i].pc = "listComments"
  /\ LET k == FindOverview(comments)
     IN local' = [local EXCEPT ![i] =
          [Log(@, <<"listComments">>) EXCEPT
             !.overviewId = IF k = 0 THEN 0 ELSE comments[k].id,
             !.overviewBody = IF k = 0 THEN <<>> ELSE comments[k].body,
             !.pc = "listFiles"]]
  /\ UNCHANGED <<hostCommits, comments, lastWritten, codecVars, sumVars>>

\* lines 143-159
ListFilesStep(i) ==
  /\ local[i].pc = "listFiles"
  /\ local' = [local EXCEPT ![i] =
       [Log(@, (IF @.overviewId # 0 THEN <<"listReviewThreads">> ELSE <<>>)
                 \o <<"listFiles">>)
        EXCEPT !.files = ListFiles(hostCommits),
               !.filesToReview = ListFiles(hostCommits),
               !.pc = "recover"]]
  /\ UNCHANGED <<hostCommits, comments, lastWritten, codecVars, sumVars>>

\* lines 161-197: prior state from the overview comment, the incremental diff
Recover(i) ==
  LET l == local[i]
      d == DecodePayload(l.overviewBody)
      last == IF Len(d.commitsReviewed) > 0 THEN Last(d.commitsReviewed) ELSE Null
  IN /\ l.pc = "recover"
     /\ IF l.overviewId = 0
          THEN local' = [local EXCEPT ![i] = [l EXCEPT !.pc = "decide"]]
        ELSE IF ~d.defined
          \* commitsReviewed is undefined: commitsReviewed.length raises (line 178)
          THEN local' = [local EXCEPT ![i] = Done(l, "threw:payload")]
        ELSE IF last # Null /\ last # l.headSha
          THEN \E o \in CompareOutcomes(last, l.headSha, hostCommits) :
                 local' = [local EXCEPT ![i] =
                   LET l1 == [Log(l, <<"compareCommits">>) EXCEPT
                                !.commitsReviewed = d.commitsReviewed,
                                !.lastCommitReviewed = last,
                                !.incrementalDiff = o]
                   IN IF o.kind = "throws" THEN Done(l1, "threw:compareCommits")
                      ELSE IF o.kind = "nofiles" THEN [l1 EXCEPT !.pc = "decide"]
                      ELSE [l1 EXCEPT !.filesToReview = FilesIn(l.filesToReview, o.files),
                                      !.pc = "decide"]]
        ELSE local' = [local EXCEPT ![i] =
               [l EXCEPT !.commitsReviewed = d.commitsReviewed,
                         !.lastCommitReviewed = last,
                         !.pc = "decide"]]
     /\ UNCHANGED <<hostCommits, comments, lastWritten, codecVars, sumVars>>

\* lines 199-205: the commits to review and the short-circuit
Decide(i) ==
  LET l == local[i]
      toReview == IF Len(l.commitsReviewed) # 0
                    THEN CommitsNotReviewed(l.commits, l.commitsReviewed)
                    ELSE l.commits
  IN /\ l.pc = "decide"
     /\ local' = [local EXCEPT ![i] =
          IF Len(toReview) = 0
            THEN Done([l EXCEPT !.commitsToReview = toReview], "returned:nochange")
            ELSE [l EXCEPT !.commitsToReview = toReview,
                           !.aliased = (Len(l.commitsReviewed) = 0),
                           !.pc = "loading"]]
     /\ UNCHANGED <<hostCommits, comments, lastWritten, codecVars, sumVars>>

\* lines 207-231: the loading message; buildLoadingMessage reverses
\* commitsToReview in place, and with it commits when they are one array
Loading(i) ==
  LET l == local[i]
      l1 == [l EXCEPT !.commitsToReview = Reverse(l.commitsToReview),
                      !.commits = IF l.aliased THEN Reverse(l.commits) ELSE l.commits,
                      !.pc = "summarize"]
  IN /\ l.pc = "loading"
     /\ IF l.overviewId # 0
          THEN /\ comments' = UpdateComment(comments, l.overviewId,
                    buildLoadingMessage(
                      IF l.lastCommitReviewed # Null THEN l.lastCommitReviewed ELSE BaseSha,
                      l.commitsToReview, l.filesToReview))
               /\ local' = [local EXCEPT ![i] = Log(l1, <<"updateComment">>)]
          ELSE /\ comments' = CreateComment(comments,
                    buildLoadingMessage(BaseSha, l.commitsToReview, l.filesToReview))
               /\ local' = [local EXCEPT ![i] =
                    [Log(l1, <<"createComment">>) EXCEPT !.overviewId = Len(comments) + 1]]
     /\ UNCHANGED <<hostCommits, lastWritten, codecVars, sumVars>>

\* lines 233-254: the summarizer, the title when it mentions the bot
Summarize(i) ==
  /\ local[i].pc = "summarize"
  /\ \E ok \in BOOLEAN, s \in SummaryTexts :
       local' = [local EXCEPT ![i] =
         IF ~ok THEN Done(Log(@, <<"runSummaryPrompt">>), "threw:summarizer")
         ELSE [Log(@, <<"runSummaryPrompt">>
                       \o (IF TitleMentions(@.ev.title) THEN <<"pulls.update">> ELSE <<>>))
               EXCEPT !.summary = s, !.pc = "final"]]
  /\ UNCHANGED <<hostCommits, comments, lastWritten, codecVars, sumVars>>

\* lines 256-265: the final overview with the payload
FinalOverview(i) ==
  LET l == local[i]
  IN /\ l.pc = "final"
     /\ comments' = UpdateComment(comments, l.overviewId,
                                  buildOverviewMessage(l.summary, l.commits))
     /\ lastWritten' = l.commits
     /\ local' = [local EXCEPT ![i] = [Log(l, <<"updateComment">>) EXCEPT !.pc = "review"]]
     /\ UNCHANGED <<hostCommits, codecVars, sumVars>>

\* lines 269-280: the reviewer
Review(i) ==
  /\ local[i].pc = "review"
  /\ \E ok \in BOOLEAN :
       local' = [local EXCEPT ![i] =
         IF ok THEN [Log(@, <<"runReviewPrompt">>) EXCEPT !.pc = "submit"]
         ELSE Done(Log(@, <<"runReviewPrompt">>), "threw:reviewer")]
  /\ UNCHANGED <<hostCommits, comments, lastWritten, codecVars, sumVars>>

\* lines 281-292: the review is submitted
SubmitReviewStep(i) ==
  /\ local[i].pc = "submit"
  /\ local' = [local EXCEPT ![i] =
       Done(Log(@, <<"listReviews", "createReview", "submitReview">>),
            "returned:complete")]
  /\ UNCHANGED <<hostCommits, comments, lastWritten, codecVars, sumVars>>

\* the process of the invocation ends
Return(i) ==
  /\ local[i].pc = "done"
  /\ local' = [local EXCEPT ![i] = Idle]
  /\ UNCHANGED <<hostCommits, comments, lastWritten, codecVars, sumVars>>

----------------------------------------------------------------------------
(* The PR's author between invocations. *)

\* a commit is pushed
Push ==
  /\ NoneRunning
  /\ Len(hostCommits) < MaxCommits
  /\ \E k \in 1..Len(ShaPool) :
       /\ \A c \in Range(hostCommits) : PoolIndex(c) < k
       /\ hostCommits' = Append(hostCommits, ShaPool[k])
  /\ UNCHANGED <<comments, local, lastWritten, codecVars, sumVars>>

\* a force-push removes the newest commits
ForcePush ==
  /\ NoneRunning
  /\ \E n \in 1..(Len(hostCommits) - 1) : hostCommits' = SubSeq(hostCommits, 1, n)
  /\ UNCHANGED <<comments, local, lastWritten, codecVars, sumVars>>

\* the bodies a user's edit can leave in the overview comment
EditedBodies ==
  { <<"x">> \o OVERVIEW_MESSAGE_SIGNATURE,
    <<"x">> \o OVERVIEW_MESSAGE_SIGNATURE \o PAYLOAD_TAG_OPEN \o PAYLOAD_TAG_CLOSE,
    <<"x">> \o OVERVIEW_MESSAGE_SIGNATURE \o PAYLOAD_TAG_OPEN \o <<"{", "}">> \o PAYLOAD_TAG_CLOSE,
    <<"x">> \o OVERVIEW_MESSAGE_SIGNATURE \o PAYLOAD_TAG_OPEN \o <<"null">> \o PAYLOAD_TAG_CLOSE,
    <<"x">> \o OVERVIEW_MESSAGE_SIGNATURE \o PAYLOAD_TAG_OPEN
            \o <<"{", Q, "commits", Q, ":", "[", Q, "a">> \o PAYLOAD_TAG_CLOSE }

\* a user edits the overview comment
EditOverview ==
  /\ NoneRunning
  /\ FindOverview(comments) # 0
  /\ \E b \in EditedBodies :
       /\ b # comments[FindOverview(comments)].body
       /\ comments' = UpdateComment(comments, comments[FindOverview(comments)].id, b)
  /\ UNCHANGED <<hostCommits, local, lastWritten, codecVars, sumVars>>

Init ==
  /\ hostCommits = <<ShaPool[1]>>
  /\ comments = << [id |-> 1, body |-> <<"please", " ", "review">>] >>
  /\ local = [i \in Invs |-> Idle]
  /\ lastWritten = <<>>
  /\ cPc = "unused" /\ cIn = <<>> /\ cSummary = <<>> /\ cBody = <<>>
  /\ cOut = [caught |-> FALSE, defined |-> TRUE, commitsReviewed |-> <<>>]
  /\ reviews = <<>> /\ sRun = <<>> /\ sub = <<>> /\ tk = <<>>

Next ==
  \/ \E i \in Sequential, ev \in Events : Start(i, ev)
  \/ \E i \in Sequential : OpenedBlock(i)
  \/ \E i \in Sequential : ListCommits(i)
  \/ \E i \in Sequential : ListComments(i)
  \/ \E i \in Sequential : ListFilesStep(i)
  \/ \E i \in Sequential : Recover(i)
  \/ \E i \in Sequential : Decide(i)
  \/ \E i \in Sequential : Loading(i)
  \/ \E i \in Sequential : Summarize(i)
  \/ \E i \in Sequential : FinalOverview(i)
  \/ \E i \in Sequential : Review(i)
  \/ \E i \in Sequential : SubmitReviewStep(i)
  \/ \E i \in Sequential : Return(i)
  \/ Push
  \/ ForcePush
  \/ EditOverview

Spec == Init /\ [][Next]_vars

----------------------------------------------------------------------------
(* Properties of handlePullRequest over invocations that do not overlap. *)

\* the invocation has carried out lines 161-197
PastRecover(l) ==
  \/ l.pc \in {"decide", "loading", "summarize", "final", "review", "submit"}
  \/ /\ l.pc = "done"
     /\ l.outcome \in {"returned:nochange", "returned:complete",
                       "threw:summarizer", "threw:reviewer"}

\* the invocation has carried out lines 199-205
PastDecide(l) ==
  \/ l.pc \in {"loading", "summarize", "final", "review", "submit"}
  \/ /\ l.pc = "done"
     /\ l.outcome \in {"returned:nochange", "returned:complete",
                       "threw:summarizer", "threw:reviewer"}

ReviewPath(l) == l.ev.action \notin {"opened", "reopened", "closed"}

HasCalled(l, names) == \E k \in 1..Len(l.calls) : l.calls[k] \in names

\* the text between the payload markers of a body that holds both
PayloadText(body) ==
  LET parts == Split(body, PAYLOAD_TAG_OPEN)
  IN IF Len(parts) < 2 THEN <<>> ELSE Split(parts[2], PAYLOAD_TAG_CLOSE)[1]

\* the overview comment the invocation found lists every fetched commit
OverviewCoversCommits(l) ==
  LET v == JSONParse(PayloadText(l.overviewBody))
  IN /\ l.overviewId # 0
     /\ Includes(l.overviewBody, PAYLOAD_TAG_OPEN)
     /\ v.kind = "object" /\ v.hasCommits
     /\ v.commits # <<>>
     /\ Range(l.commits) \subseteq Range(v.commits)

\* C1: on the review path, an overview comment whose payload lists every
\* fetched commit makes the run end at the short-circuit with no
\* host-mutating call (unless the compareCommits read itself fails, which
\* ends the run with no mutating call either).
C1_NoOpWhenUpToDate ==
  \A i \in Invs :
    LET l == local[i]
    IN (ReviewPath(l) /\ l.pc \notin {"idle", "listCommits", "listComments"}
          /\ OverviewCoversCommits(l))
       => /\ ~HasCalled(l, MutatingCalls)
          /\ l.pc \in {"listFiles", "recover", "decide", "done"}
          /\ l.pc = "done" =>
               l.outcome \in {"returned:nochange", "threw:compareCommits"}

\* a run on a PR of two reviewed commits that ended at the short-circuit
C1_Witness ==
  \E i \in Invs :
    /\ ReviewPath(local[i]) /\ OverviewCoversCommits(local[i])
    /\ Len(local[i].commits) >= 2
    /\ local[i].pc = "done" /\ local[i].outcome = "returned:nochange"

\* the k-th smallest element of a set of numbers
KthOf(K, k) == CHOOSE m \in K : Cardinality({ n \in K : n <= m }) = k

\* C2: with a non-empty commitsReviewed, commitsToReview is the fetched
\* commits whose full SHA is not in commitsReviewed, in fetched order; with
\* an empty commitsReviewed it is all fetched commits.  Stated where lines
\* 199-205 have just run.
C2_CommitsToReview ==
  \A i \in Invs :
    LET l == local[i]
        K == { k \in 1..Len(l.commits) : l.commits[k] \notin Range(l.commitsReviewed) }
    IN (l.pc = "loading" \/ (l.pc = "done" /\ l.outcome = "returned:nochange"))
       => /\ l.commitsReviewed # <<>> =>
               /\ Len(l.commitsToReview) = Cardinality(K)
               /\ \A k \in 1..Cardinality(K) :
                    l.commitsToReview[k] = l.commits[KthOf(K, k)]
          /\ l.commitsReviewed = <<>> => l.commitsToReview = l.commits
          /\ (l.commitsReviewed = <<ShaPool[1], ShaPool[2]>>
                /\ l.commits = <<ShaPool[1], ShaPool[2], ShaPool[3]>>)
               => l.commitsToReview = <<ShaPool[3]>>

\* reviewed [c1, c2], fetched [c1, c2, c3]
C2_Witness ==
  \E i \in Invs :
    /\ local[i].pc = "loading"
    /\ local[i].commitsReviewed = <<ShaPool[1], ShaPool[2]>>
    /\ local[i].commits = <<ShaPool[1], ShaPool[2], ShaPool[3]>>
    /\ local[i].commitsToReview = <<ShaPool[3]>>

\* the overview comment found carries the signature and no payload marker
OverviewWithoutMarkers(l) ==
  /\ l.overviewId # 0
  /\ Includes(l.overviewBody, OVERVIEW_MESSAGE_SIGNATURE)
  /\ ~Includes(l.overviewBody, PAYLOAD_TAG_OPEN)
  /\ ~Includes(l.overviewBody, PAYLOAD_TAG_CLOSE)

\* C4: an overview comment with the signature and no payload markers raises
\* no exception, gives commitsReviewed = [] and lastCommitReviewed = null,
\* causes no compareCommits call and keeps every fetched commit and file in
\* scope.
C4_NoMarkersFullReview ==
  \A i \in Invs :
    LET l == local[i]
    IN (l.pc \notin {"idle", "listCommits", "listComments", "listFiles", "recover"}
          /\ OverviewWithoutMarkers(l))
       => /\ PastRecover(l)
          /\ l.commitsReviewed = <<>>
          /\ l.lastCommitReviewed = Null
          /\ ~HasCalled(l, {"compareCommits"})
          /\ l.filesToReview = l.files
          /\ PastDecide(l) => l.commitsToReview = l.commits

\* a run that found a leftover loading message and went on to review two commits
C4_Witness ==
  \E i \in Invs :
    /\ OverviewWithoutMarkers(local[i])
    /\ local[i].pc = "loading"
    /\ Len(local[i].commitsToReview) = 2
    /\ Len(local[i].filesToReview) = 2

\* the text between the markers is no object holding a commits array
PayloadUnusable(l) ==
  LET v == JSONParse(PayloadText(l.overviewBody))
  IN /\ l.overviewId # 0
     /\ Includes(l.overviewBody, PAYLOAD_TAG_OPEN)
     /\ ~(v.kind = "object" /\ v.hasCommits)

\* C5: whatever text lies between the payload markers, the run does not
\* throw because of the payload and goes on as a full review with
\* commitsReviewed = [].
C5_CorruptPayloadNeverThrows ==
  \A i \in Invs :
    LET l == local[i]
    IN (l.pc \notin {"idle", "listCommits", "listComments", "listFiles", "recover"}
          /\ PayloadUnusable(l))
       => /\ PastRecover(l)
          /\ l.commitsReviewed = <<>>

\* C10: a final overview write never persists fewer commits than the run
\* recovered from the overview comment.
C10_PayloadNeverShrinks ==
  \A i \in Invs :
    local[i].pc = "review" => Len(lastWritten) >= Len(local[i].commitsReviewed)

\* the comments of the PR that carry the overview signature
OverviewComments(cs) ==
  { k \in 1..Len(cs) : Includes(cs[k].body, OVERVIEW_MESSAGE_SIGNATURE) }

\* C11: over invocations that do not overlap, throwing ones included, a
\* comment is created only when no issue comment carries the overview
\* signature; once one does, it stays the one overview comment (same
\* position, same id) and the PR never holds a second one.
C11_OneOverviewComment ==
  [][ /\ Len(comments') > Len(comments) => OverviewComments(comments) = {}
      /\ Cardinality(OverviewComments(comments')) <= 1
      /\ OverviewComments(comments) # {} =>
            /\ Len(comments') = Len(comments)
            /\ OverviewComments(comments') = OverviewComments(comments)
            /\ \A k \in OverviewComments(comments) : comments'[k].id = comments[k].id
    ]_vars

\* a later invocation has updated the loading message that an invocation
\* which threw in the summarizer left behind
C11_Witness ==
  \E i \in Invs :
    /\ local[i].pc = "summarize"
    /\ OverviewWithoutMarkers(local[i])
    /\ HasCalled(local[i], {"updateComment"})
    /\ ~HasCalled(local[i], {"createComment"})
    /\ Len(comments) = 2

\* C12: in an incremental run whose last reviewed commit is not the head and
\* whose compareCommits call returned a file list, filesToReview is the files
\* of listFiles, in that order, whose name is in that list.
C12_FilesOfIncrementalDiff ==
  \A i \in Invs :
    LET l == local[i]
        K == { k \in 1..Len(l.files) : l.files[k] \in Range(l.incrementalDiff.files) }
    IN (PastRecover(l) /\ l.incrementalDiff.kind = "ok")
       => /\ l.lastCommitReviewed # Null /\ l.lastCommitReviewed # l.headSha
          /\ Len(l.filesToReview) = Cardinality(K)
          /\ \A k \in 1..Cardinality(K) : l.filesToReview[k] = l.files[KthOf(K, k)]

\* a comparison that lists two of the PR's three files, in the other order
C12_Witness ==
  \E i \in Invs :
    /\ local[i].pc = "decide"
    /\ local[i].incrementalDiff.kind = "ok"
    /\ Len(local[i].files) = 3
    /\ Len(local[i].incrementalDiff.files) = 2
    /\ local[i].incrementalDiff.files # local[i].filesToReview
    /\ Len(local[i].filesToReview) = 2

\* the fetched commits are the reviewed ones followed by one new commit
OneNewCommit(l) ==
  /\ Len(l.commits) = Len(l.commitsReviewed) + 1
  /\ Len(l.commitsReviewed) >= 1
  /\ Range(SubSeq(l.commits, 1, Len(l.commits) - 1)) = Range(l.commitsReviewed)

\* C13: when the run before reviewed all the commits the PR then had and one
\* commit was pushed since, the invocation reviews that commit alone, takes
\* the head of the run before as the base of the comparison, and with the
\* comparison's file list keeps only the files touched by the new commit.
C13_IncrementalAfterPush ==
  \A i \in Invs :
    LET l == local[i]
        oldHead == l.commits[Len(l.commits) - 1]
    IN (l.pc \in {"decide", "loading"} /\ OneNewCommit(l))
       => /\ l.lastCommitReviewed = oldHead
          /\ l.pc = "loading" => l.commitsToReview = <<Last(l.commits)>>
          /\ l.incrementalDiff.kind = "ok" =>
                l.filesToReview = KeepFiles(l.files, Touched(Last(l.commits)))

\* C14: a compareCommits call that throws does not end the run: the run
\* goes on past lines 161-197 with the full filesToReview of listFiles.
C14_CompareFailureTolerated ==
  \A i \in Invs :
    LET l == local[i]
    IN l.incrementalDiff.kind = "throws"
       => /\ PastRecover(l)
          /\ l.outcome # "threw:compareCommits"
          /\ l.filesToReview = l.files

\* the calls that write the overview comment
OverviewWrites == {"createComment", "updateComment"}

\* C15: in every invocation, whatever the event action, the overview comment
\* is written (the loading message) before the first call of the summarizer,
\* and between that write and the next one (the final overview) the
\* summarizer has been called.
C15_LoadingBeforeSummarizer ==
  \A i \in Invs :
    LET c == local[i].calls
    IN /\ \A k \in 1..Len(c) :
            c[k] = "runSummaryPrompt" => \E j \in 1..(k - 1) : c[j] \in OverviewWrites
       /\ \A j, k \in 1..Len(c) :
            (j < k /\ c[j] \in OverviewWrites /\ c[k] \in OverviewWrites)
              => \E m \in (j + 1)..(k - 1) : c[m] = "runSummaryPrompt"

\* the body holds one of the ignore phrases, each word in lower case or in
\* another letter case
IgnorePhraseInAnyCase(body) ==
  LET Cases(w) ==
        CASE w = "@presubmit" -> {"@presubmit", "@PreSubmit"}
          [] w = "@presubmitai" -> {"@presubmitai", "@PresubmitAI"}
          [] w = "ignore" -> {"ignore", "IGNORE"}
          [] w = "skip" -> {"skip", "Skip"}
          [] OTHER -> {w}
  IN \E phrase \in ignorePhrases :
       \E k \in 1..Len(body) :
         /\ k + Len(phrase) - 1 <= Len(body)
         /\ \A j \in 1..Len(phrase) : body[k + j - 1] \in Cases(phrase[j])

\* an invocation that got past the event checks of lines 22-34
HasPullRequest(l) ==
  l.pc # "idle" /\ SupportedEvent(l.ev.name) /\ l.ev.hasPullRequest

\* C19: when the PR body holds an ignore phrase in any letter case, the
\* invocation returns at line 39 having made no host, summarizer, reviewer or
\* tracker call, whatever the event action.
C19_IgnoreDirectiveShortCircuits ==
  \A i \in Invs :
    LET l == local[i]
    IN (HasPullRequest(l) /\ IgnorePhraseInAnyCase(l.ev.body))
       => /\ l.pc = "done"
          /\ l.outcome = "returned:ignored"
          /\ l.calls = <<>>

\* a closed event whose body names a ticket and holds an ignore phrase in
\* mixed case has returned as ignored
C19_Witness ==
  \E i \in Invs :
    LET l == local[i]
    IN /\ l.pc = "done" /\ l.outcome = "returned:ignored"
       /\ l.ev.action = "closed" /\ HasTicketKey(l.ev.body)
       /\ IgnorePhraseInAnyCase(l.ev.body)
       /\ ~\E phrase \in ignorePhrases : Includes(l.ev.body, phrase)

\* C20: an invocation whose event name is neither pull_request nor
\* pull_request_target, or whose payload has no pull_request, returns
\* (it does not throw) and has made no external call.
C20_UnsupportedEventReturns ==
  \A i \in Invs :
    LET l == local[i]
    IN (l.pc # "idle"
          /\ (l.ev.name \notin {"pull_request", "pull_request_target"}
                \/ ~l.ev.hasPullRequest))
       => /\ l.pc = "done"
          /\ l.outcome \in {"returned:unsupported", "returned:nopullrequest"}
          /\ l.calls = <<>>

\* a push event has returned as unsupported with no call made
C20_Witness ==
  \E i \in Invs :
    LET l == local[i]
    IN /\ l.pc = "done" /\ l.calls = <<>>
       /\ l.ev.name = "push" /\ l.outcome = "returned:unsupported"

\* the overview comment the invocation found is a loading message
\* (messages.ts 26-68): the state an invocation leaves when it throws between
\* lines 231 and 257
FoundLoadingMessage(l) ==
  /\ l.overviewId # 0
  /\ l.overviewBody # <<>>
  /\ l.overviewBody[1] = "Analyzing changes from base ("

C23_FullRunPayload ==
  \A i \in Invs :
    LET l == local[i]
        k == FindOverview(comments)
        d == DecodePayload(comments[k].body)
    IN (l.pc = "review" /\ HasCalled(l, {"createComment"}))
       => /\ Cardinality(OverviewComments(comments)) = 1
          /\ k # 0 /\ comments[k].id = l.overviewId
          /\ ~d.caught /\ d.defined
          /\ Len(d.commitsReviewed) = Len(hostCommits)
          /\ Range(d.commitsReviewed) = Range(hostCommits)
          /\ \A c \in Range(hostCommits) :
                Cardinality({ j \in 1..Len(d.commitsReviewed) : d.commitsReviewed[j] = c }) = 1

\* a full run over three commits has written its final overview
C23_Witness ==
  \E i \in Invs :
    /\ local[i].pc = "review"
    /\ HasCalled(local[i], {"createComment"})
    /\ local[i].overviewBody = <<>>
    /\ Len(hostCommits) = 3
    /\ Len(lastWritten) = 3

\* C24: in an incremental run whose last reviewed commit is the PR head, or
\* whose compareCommits call returned an empty file list, filesToReview is
\* empty from line 194 on.
C24_ScopeNarrowsToNothing ==
  \A i \in Invs :
    LET l == local[i]
    IN (PastRecover(l) /\ l.overviewId # 0 /\ l.overviewBody # <<>>
          /\ (l.lastCommitReviewed = l.headSha
                \/ (l.incrementalDiff.kind = "ok" /\ l.incrementalDiff.files = <<>>)))
       => l.filesToReview = <<>>

\* C25: an opened or reopened event on a PR whose overview payload lists
\* every fetched commit makes no host-mutating call (no pulls.update among
\* them) and creates or changes no tracker ticket.
C25_ReopenedIsNoOp ==
  \A i \in Invs :
    LET l == local[i]
    IN (l.ev.action \in {"opened", "reopened"}
          /\ l.pc \notin {"idle", "opened", "listCommits", "listComments"}
          /\ OverviewCoversCommits(l))
       => ~HasCalled(l, MutatingCalls \cup {"createJiraTicket", "updateTicketState"})

\* C30: after a final overview write the payload lists the commits in the
\* order the host returned them, its last element being the PR head of the
\* run; the commits handed on to submitReview are in that order too.
C30_PayloadInHostOrder ==
  \A i \in Invs :
    LET l == local[i]
        k == FindOverview(comments)
    IN l.pc \in {"review", "submit"}
       => /\ k # 0
          /\ DecodePayload(comments[k].body).commitsReviewed = hostCommits
          /\ Last(DecodePayload(comments[k].body).commitsReviewed) = l.headSha
          /\ l.commits = hostCommits
          /\ \A a, b \in 1..Len(l.commitsToReview) :
                a < b => PoolIndex(l.commitsToReview[a]) < PoolIndex(l.commitsToReview[b])

\* C31: when the reviewer call has failed after the summarizer succeeded, the
\* payload of the overview comment lists none of the commits that run was to
\* review: a SHA is in the payload only once its review has been submitted.
C31_ReviewedOnlyOnceSubmitted ==
  \A i \in Invs :
    LET l == local[i]
        k == FindOverview(comments)
    IN (l.pc = "done" /\ l.outcome = "threw:reviewer" /\ k # 0)
       => \/ DecodePayload(comments[k].body).caught
          \/ ~DecodePayload(comments[k].body).defined
          \/ Range(l.commitsToReview)
                \cap Range(DecodePayload(comments[k].body).commitsReviewed) = {}

\* C37: an invocation for a closed event, with or without a bracketed ticket
\* key in the PR body, creates or updates no overview comment, calls neither
\* the summarizer nor the reviewer, and submits no review.
C37_ClosedNeverReviews ==
  \A i \in Invs :
    local[i].ev.action = "closed" =>
      ~HasCalled(local[i], {"createComment", "updateComment", "runSummaryPrompt",
                            "runReviewPrompt", "createReview", "submitReview"})

----------------------------------------------------------------------------
(* messages.ts buildReviewSummary: numbers in text. *)

DigitChars == <<"0", "1", "2", "3", "4", "5", "6", "7", "8", "9">>
IsDigit(c) == \E d \in 1..10 : DigitChars[d] = c
DigitValue(c) == (CHOOSE d \in 1..10 : DigitChars[d] = c) - 1
IsHex(c) == IsDigit(c) \/ c \in {"a", "b", "c", "d", "e", "f"}

\* the number parseInt gives for text that does not start with a digit
NaN == -1

\* the value of a property the reviewer left out (end_line of a file-level
\* finding)
Undefined == -2

RECURSIVE DecimalOf(_)
DecimalOf(n) ==
  IF n < 10 THEN <<DigitChars[n + 1]>>
  ELSE DecimalOf(n \div 10) \o <<DigitChars[(n % 10) + 1]>>

\* `${n}` for a number
NumberToString(n) ==
  IF n = NaN THEN <<"N", "a", "N">>
  ELSE IF n = Undefined THEN <<"undefined">>
  ELSE DecimalOf(n)

\* parseInt(text): the value of the leading digits
RECURSIVE LeadingDigits(_, _)
LeadingDigits(t, acc) ==
  IF t = <<>> \/ ~IsDigit(Head(t)) THEN acc
  ELSE LeadingDigits(Tail(t), acc * 10 + DigitValue(Head(t)))

parseInt(t) ==
  IF t = <<>> \/ ~IsDigit(Head(t)) THEN NaN ELSE LeadingDigits(t, 0)

----------------------------------------------------------------------------
(* buildReviewSummary, lines 255-297: what it recovers from existingSummary. *)

\* existingSummary.match(/### <heading>[\s\S]*?<\/details>/)
SectionOf(text, heading) ==
  LET i == IndexOf(text, <<"###", " ", heading>>, 1)
      j == IndexAfter(text, <<"</details>">>, i, 3)
  IN IF i = 0 \/ j = 0 THEN [found |-> FALSE, text |-> <<>>]
     ELSE [found |-> TRUE, text |-> SubSeq(text, i, j)]

\* section.match(/\[([a-f0-9]{7})\]/g)?.map(s => s.slice(1, 8)) || []
RECURSIVE MatchShas(_, _)
MatchShas(t, from) ==
  LET hits == { p \in from..(Len(t) - 8) :
                  /\ t[p] = "[" /\ t[p + 8] = "]"
                  /\ \A k \in 1..7 : IsHex(t[p + k]) }
  IN IF hits = {} THEN <<>>
     ELSE <<SubSeq(t, Min(hits) + 1, Min(hits) + 7)>> \o MatchShas(t, Min(hits) + 9)

NoNewline(t, from, to) == \A k \in from..to : t[k] # NL

(* One match of                                                            *)
(*   /- <details>[\s\S]*?<summary>(.*?) \[(.*?)-(.*?)\]<\/summary>          *)
(*    [\s\S]*?> (.*?): "(.*?)"[\s\S]*?<\/details>/                           *)
(* at or after `from`: every lazy group takes the shortest text that lets   *)
(* the next literal follow.  The fields the model renders hold no newline,  *)
(* quote, "]" or " [", so this first attempt is the regex's match.          *)
MatchItem(t, from) ==
  LET a == IndexOf(t, <<"-", " ", "<details>">>, from)
      b == IndexAfter(t, <<"<summary>">>, a, 3)
      c == IndexAfter(t, <<" ", "[">>, b, 1)
      d == IndexAfter(t, <<"-">>, c, 2)
      e == IndexAfter(t, <<"]", "</summary>">>, d, 1)
      f == IndexAfter(t, <<">", " ">>, e, 2)
      g == IndexAfter(t, <<":", " ", Q>>, f, 2)
      h == IndexAfter(t, <<Q>>, g, 3)
      k == IndexAfter(t, <<"</details>">>, h, 1)
  IN IF k = 0 \/ ~NoNewline(t, b + 1, e - 1) \/ ~NoNewline(t, f + 2, h - 1)
       THEN [ok |-> FALSE, next |-> from,
             file |-> <<>>, start |-> <<>>, end |-> <<>>, label |-> <<>>, header |-> <<>>]
       ELSE [ok |-> TRUE, next |-> k + 1,
             file   |-> SubSeq(t, b + 1, c - 1),
             start  |-> SubSeq(t, c + 2, d - 1),
             end    |-> SubSeq(t, d + 1, e - 1),
             label  |-> SubSeq(t, f + 2, g - 1),
             header |-> SubSeq(t, g + 3, h - 1)]

\* label.toLowerCase() === "critical"
IsCriticalLabel(label) == LowerText(label) = <<"critical">>

\* lines 266-277 and 284-295: the findings matchAll yields; a finding parsed
\* from the skipped section is never critical
RECURSIVE ParseItems(_, _, _)
ParseItems(t, from, actionable) ==
  LET m == MatchItem(t, from)
  IN IF ~m.ok THEN <<>>
     ELSE << [file |-> m.file,
              start_line |-> parseInt(m.start),
              end_line |-> parseInt(m.end),
              label |-> m.label,
              header |-> m.header,
              content |-> <<>>,
              critical |-> (actionable /\ IsCriticalLabel(m.label))] >>
          \o ParseItems(t, m.next, actionable)

\* previousCommits, previousActionableComments, previousSkippedComments;
\* hasExisting is FALSE when existingSummary is undefined
ParseExisting(hasExisting, existingSummary) ==
  LET cs == SectionOf(existingSummary, "Commits Considered")
      as == SectionOf(existingSummary, "Actionable Comments")
      ss == SectionOf(existingSummary, "Skipped Comments")
      use == hasExisting /\ existingSummary # <<>>
  IN [commits    |-> IF use /\ cs.found THEN MatchShas(cs.text, 1) ELSE <<>>,
      actionable |-> IF use /\ as.found THEN ParseItems(as.text, 1, TRUE) ELSE <<>>,
      skipped    |-> IF use /\ ss.found THEN ParseItems(ss.text, 1, FALSE) ELSE <<>>]

----------------------------------------------------------------------------
(* buildReviewSummary, lines 299-362: merge and render. *)

\* [...new Set(all)]: the first occurrence of each value, in order
RECURSIVE UniqueValues(_)
UniqueValues(all) ==
  IF all = <<>> THEN <<>>
  ELSE LET init == UniqueValues(SubSeq(all, 1, Len(all) - 1))
       IN IF all[Len(all)] \in Range(init) THEN init ELSE Append(init, all[Len(all)])

\* `${c.file}-${c.start_line}-${c.end_line}-${c.header}`
KeyString(c) ==
  c.file \o <<"-">> \o NumberToString(c.start_line) \o <<"-">>
    \o NumberToString(c.end_line) \o <<"-">> \o c.header

KeepAllComments(all) == all

\* all.filter((comment, index) => all.findIndex(c => key(c) === key(comment)) === index)
UniqueComments(all) ==
  LET keep == { k \in 1..Len(all) :
                  Min({ j \in 1..Len(all) : KeyString(all[j]) = KeyString(all[k]) }) = k }
      F[k \in 0..Len(all)] ==
        IF k = 0 THEN <<>>
        ELSE IF k \in keep THEN Append(F[k - 1], all[k]) ELSE F[k - 1]
  IN F[Len(all)]

\* commits.find(c => c.sha.startsWith(sha)): its message, or nothing
CommitSuffix(commits, sha) ==
  LET hits == { k \in 1..Len(commits) :
                  /\ Len(commits[k].sha) >= Len(sha)
                  /\ SubSeq(commits[k].sha, 1, Len(sha)) = sha }
  IN IF hits = {} THEN <<>> ELSE <<":", " ">> \o commits[Min(hits)].message

RECURSIVE RenderCommits(_, _)
RenderCommits(shas, commits) ==
  IF shas = <<>> THEN <<>>
  ELSE <<"-", " ", "[">> \o Head(shas) \o <<"]", "(url)">>
         \o CommitSuffix(commits, Head(shas)) \o <<NL>>
         \o RenderCommits(Tail(shas), commits)

RECURSIVE RenderFiles(_)
RenderFiles(files) ==
  IF files = <<>> THEN <<>>
  ELSE <<"-", " ", Head(files), " ", "_(1 hunk)_", NL>> \o RenderFiles(Tail(files))

RenderItem(c) ==
  <<"-", " ", "<details>", NL, " ", " ", "<summary>">> \o c.file
    \o <<" ", "[">> \o NumberToString(c.start_line) \o <<"-">>
    \o NumberToString(c.end_line) \o <<"]", "</summary>", NL, NL, " ", " ", ">", " ">>
    \o c.label \o <<":", " ", Q>> \o c.header \o <<Q, NL, " ", " ", "</details>", NL>>

RECURSIVE RenderItems(_)
RenderItems(cs) ==
  IF cs = <<>> THEN <<>> ELSE RenderItem(Head(cs)) \o RenderItems(Tail(cs))

SectionHead(title, n) ==
  <<"<details>", NL, "<summary>", title, " ", "(">> \o DecimalOf(n)
    \o <<")", "</summary>", NL, NL>>

\* the lists buildReviewSummary merges and the body it returns
buildReviewSummary(files, commits, actionableComments, skippedComments, hasExisting, existingSummary) ==
  LET prev == ParseExisting(hasExisting, existingSummary)
      uniqueCommits ==
        UniqueValues(prev.commits \o [k \in 1..Len(commits) |-> Sha7(commits[k].sha)])
      uniqueActionable == UniqueComments(prev.actionable \o actionableComments)
      uniqueSkipped == UniqueComments(prev.skipped \o skippedComments)
  IN [previous |-> prev,
      uniqueCommits |-> uniqueCommits,
      uniqueActionable |-> uniqueActionable,
      uniqueSkipped |-> uniqueSkipped,
      lgtm |-> (Len(actionableComments) = 0),
      body |->
        (IF Len(actionableComments) = 0 THEN <<"LGTM!">>
                                       ELSE <<"Pull request needs attention.">>)
        \o <<NL, NL, "###", " ", "Review Summary", NL, NL>>
        \o SectionHead("Commits Considered", Len(uniqueCommits))
        \o RenderCommits(uniqueCommits, commits) \o <<NL, "</details>", NL, NL>>
        \o SectionHead("Files Processed", Len(files))
        \o RenderFiles(files) \o <<NL, "</details>", NL, NL>>
        \o SectionHead("Actionable Comments", Len(uniqueActionable))
        \o RenderItems(uniqueActionable) \o <<NL, "</details>", NL, NL>>
        \o SectionHead("Skipped Comments", Len(uniqueSkipped))
        \o RenderItems(uniqueSkipped) \o <<"</details>", NL, NL>>]

----------------------------------------------------------------------------
(* SpecSummary: the batched path of submitReview (pull_request.ts 340-397)  *)
(* run after run on one PR, each run reading the reviews the PR holds.      *)

MaxRuns == 2

Finding(file, start, end, label, header, critical) ==
  [file |-> file, start_line |-> start, end_line |-> end, label |-> label,
   header |-> header, content |-> <<"c">>, critical |-> critical]

FA  == Finding(<<"a">>, 1, 2, <<"bug">>, <<"x">>, TRUE)
\* FA found again, worded differently
FA2 == [Finding(<<"a">>, 1, 2, <<"Critical">>, <<"x">>, TRUE) EXCEPT !.content = <<"d">>]
FB  == Finding(<<"b">>, 3, 4, <<"typo">>, <<"y">>, FALSE)
FS  == Finding(<<"a">>, 12, 12, <<"nit">>, <<"z">>, FALSE)
FS2 == Finding(<<"b">>, 7, 9, <<"nit">>, <<"y">>, FALSE)
\* two findings whose fields differ and whose joined keys are both a-1-2-3-x
FC1 == Finding(<<"a">>, 1, 2, <<"bug">>, <<"3", "-", "x">>, TRUE)
FC2 == Finding(<<"a", "-", "1">>, 2, 3, <<"bug">>, <<"x">>, TRUE)

\* the comments a run hands to submitReview
ReviewerOutputs ==
  { <<>>, <<FA, FS>>, <<FA, FA2, FS, FS>>, <<FB, FA, FS2>>, <<FC1, FC2>> }

Commit(k) == [sha |-> ShaPool[k], message |-> <<"m", DigitChars[k + 1]>>]

\* the commitsToReview a run hands to submitReview
SummaryCommitLists ==
  { <<Commit(1)>>, <<Commit(2)>>, <<Commit(4), Commit(3)>> }

SummaryFiles == <<"f1">>

NoReview ==
  [body |-> <<>>, own |-> FALSE, commits |-> <<>>, actionable |-> <<>>, skipped |-> <<>>]

\* a review of someone else
PlainReview == [NoReview EXCEPT !.body = <<"looks", " ", "good">>]

\* a review body with the headings the parser looks for
HeadedReview ==
  [NoReview EXCEPT !.body =
     <<"###", " ", "Review Summary", NL,
       "###", " ", "Commits Considered", NL, "-", " ", "[">> \o Sha7(ShaPool[3])
     \o <<"]", NL, "</details>", NL,
          "###", " ", "Actionable Comments", NL>>
     \o RenderItem(FA) \o RenderItem(FB)
     \o <<"</details>", NL, "###", " ", "Skipped Comments", NL>>
     \o RenderItem(FS) \o <<"</details>", NL>>]

\* reviews.reverse().find(r => r.body?.includes("### Review Summary")):
\* the position of the latest such review, 0 when there is none
FindLastReview(rs) ==
  LET hits == { k \in 1..Len(rs) : Includes(rs[k].body, <<"###", " ", "Review Summary">>) }
  IN IF hits = {} THEN 0 ELSE CHOOSE k \in hits : \A j \in hits : j <= k

\* lines 341-349: critical findings and typos are line comments
RECURSIVE LineComments(_)
LineComments(cs) ==
  IF cs = <<>> THEN <<>>
  ELSE IF Head(cs).critical \/ Head(cs).label = <<"typo">>
    THEN <<Head(cs)>> \o LineComments(Tail(cs))
    ELSE LineComments(Tail(cs))

RECURSIVE SkippedComments(_)
SkippedComments(cs) ==
  IF cs = <<>> THEN <<>>
  ELSE IF Head(cs).critical \/ Head(cs).label = <<"typo">>
    THEN SkippedComments(Tail(cs))
    ELSE <<Head(cs)>> \o SkippedComments(Tail(cs))

NoRun ==
  [n |-> 0, hasExisting |-> FALSE, existing |-> NoReview,
   commits |-> <<>>, lineComments |-> <<>>, skippedComments |-> <<>>,
   previous |-> [commits |-> <<>>, actionable |-> <<>>, skipped |-> <<>>],
   uniqueCommits |-> <<>>, uniqueActionable |-> <<>>, uniqueSkipped |-> <<>>,
   lgtm |-> TRUE]

SummaryInit ==
  /\ reviews \in { <<>>, <<PlainReview>>, <<HeadedReview>>, <<HeadedReview, PlainReview>> }
  /\ sRun = NoRun /\ sub = <<>> /\ tk = <<>>
  /\ cPc = "unused" /\ cIn = <<>> /\ cSummary = <<>> /\ cBody = <<>>
  /\ cOut = [caught |-> FALSE, defined |-> TRUE, commitsReviewed |-> <<>>]
  /\ hostCommits = <<>> /\ comments = <<>> /\ local = <<>> /\ lastWritten = <<>>

\* lines 340-397 with every host call succeeding: the review is created and
\* submitted with the new summary as its body
SubmitReviewRun(commits, cs) ==
  LET k == FindLastReview(reviews)
  IN /\ sRun.n < MaxRuns
     /\ \E r \in { buildReviewSummary(SummaryFiles, commits,
                                    LineComments(cs), SkippedComments(cs),
                                    k # 0, IF k = 0 THEN <<>> ELSE reviews[k].body) } :
       /\ reviews' = Append(reviews,
            [body |-> r.body, own |-> TRUE, commits |-> r.uniqueCommits,
             actionable |-> r.uniqueActionable, skipped |-> r.uniqueSkipped])
       /\ sRun' =
            [n |-> sRun.n + 1, hasExisting |-> (k # 0),
             existing |-> IF k = 0 THEN NoReview ELSE reviews[k],
             commits |-> commits,
             lineComments |-> LineComments(cs), skippedComments |-> SkippedComments(cs),
             previous |-> r.previous,
             uniqueCommits |-> r.uniqueCommits,
             uniqueActionable |-> r.uniqueActionable,
             uniqueSkipped |-> r.uniqueSkipped,
             lgtm |-> r.lgtm]
       /\ UNCHANGED <<codecVars, prVars, sub, tk>>

SummaryNext ==
  \E commits \in SummaryCommitLists, cs \in ReviewerOutputs : SubmitReviewRun(commits, cs)

SpecSummary == SummaryInit /\ [][SummaryNext]_vars

----------------------------------------------------------------------------
(* Properties of buildReviewSummary. *)

\* the identity of a finding
Key(c) == <<c.file, c.start_line, c.end_line, c.header>>

\* merged is all reduced to the first occurrence of each identity
IsFirstOccurrences(merged, all) ==
  LET K == { k \in 1..Len(all) : \A j \in 1..(k - 1) : Key(all[j]) # Key(all[k]) }
  IN /\ Len(merged) = Cardinality({ Key(all[k]) : k \in 1..Len(all) })
     /\ Len(merged) = Cardinality(K)
     /\ \A k \in 1..Cardinality(K) : merged[k] = all[KthOf(K, k)]

\* C6: the merged actionable list, and the merged skipped list, is
\* previous ++ current reduced to the first occurrence of each key (file,
\* start_line, end_line, header); its length is the number of distinct keys
\* and elements keep their order of first appearance.
C6_DedupMergeLaw ==
  sRun.n > 0 =>
    /\ IsFirstOccurrences(sRun.uniqueActionable,
                          sRun.previous.actionable \o sRun.lineComments)
    /\ IsFirstOccurrences(sRun.uniqueSkipped,
                          sRun.previous.skipped \o sRun.skippedComments)

NoRepeatedKey(cs) ==
  \A j, k \in 1..Len(cs) : j # k => Key(cs[j]) # Key(cs[k])

\* C7: in every summary rendered along a chain of runs, no key (file,
\* start_line, end_line, header) is listed twice under Actionable Comments,
\* nor twice under Skipped Comments.
C7_NoRepeatedFinding ==
  \A k \in 1..Len(reviews) :
    reviews[k].own =>
      /\ NoRepeatedKey(reviews[k].actionable)
      /\ NoRepeatedKey(reviews[k].skipped)

\* a second run that was handed the first run's summary, found one of its
\* findings again and reported one finding twice
C7_Witness ==
  /\ sRun.n >= 2 /\ sRun.hasExisting /\ sRun.existing.own
  /\ \E j \in 1..Len(sRun.existing.actionable), k \in 1..Len(sRun.lineComments) :
       Key(sRun.existing.actionable[j]) = Key(sRun.lineComments[k])
  /\ \E j, k \in 1..Len(sRun.skippedComments) :
       j # k /\ Key(sRun.skippedComments[j]) = Key(sRun.skippedComments[k])

\* the parsed findings are the rendered ones, field for field, without content
SameFindings(parsed, rendered) ==
  /\ Len(parsed) = Len(rendered)
  /\ \A k \in 1..Len(parsed) :
       /\ Key(parsed[k]) = Key(rendered[k])
       /\ parsed[k].label = rendered[k].label
       /\ parsed[k].content = <<>>

\* C8: handed a summary buildReviewSummary produced, the parser recovers the
\* commit prefixes and the findings that summary lists, all of them and in
\* order.
C8_RenderParseRoundTrip ==
  (sRun.n > 0 /\ sRun.hasExisting /\ sRun.existing.own) =>
    /\ sRun.previous.commits = sRun.existing.commits
    /\ SameFindings(sRun.previous.actionable, sRun.existing.actionable)
    /\ SameFindings(sRun.previous.skipped, sRun.existing.skipped)

\* C9: a run that reviews one commit whose prefix the previous run's summary
\* does not list renders a Commits Considered count one above that summary's.
C9_CommitCountGrowsByOne ==
  (/\ sRun.n >= 2 /\ sRun.hasExisting /\ sRun.existing.own
   /\ Len(sRun.commits) = 1
   /\ Sha7(sRun.commits[1].sha) \notin Range(sRun.existing.commits))
    => Len(sRun.uniqueCommits) = Len(sRun.existing.commits) + 1

\* C29: a run that builds on the summary of the run before lists every
\* finding of that summary's Actionable Comments and Skipped Comments again,
\* first and in the same order, and after them findings of its own.
C29_PreviousFindingsKept ==
  (sRun.n >= 2 /\ sRun.hasExisting /\ sRun.existing.own) =>
    LET old == sRun.existing
        new == Last(reviews)
    IN /\ Len(new.actionable) >= Len(old.actionable)
       /\ Len(new.skipped) >= Len(old.skipped)
       /\ \A k \in 1..Len(old.actionable) : Key(new.actionable[k]) = Key(old.actionable[k])
       /\ \A k \in 1..Len(old.skipped) : Key(new.skipped[k]) = Key(old.skipped[k])
       /\ \A k \in (Len(old.actionable) + 1)..Len(new.actionable) :
            \E j \in 1..Len(sRun.lineComments) :
              Key(sRun.lineComments[j]) = Key(new.actionable[k])
       /\ \A k \in (Len(old.skipped) + 1)..Len(new.skipped) :
            \E j \in 1..Len(sRun.skippedComments) :
              Key(sRun.skippedComments[j]) = Key(new.skipped[k])

\* C22: the body a run returns starts with the LGTM verdict exactly when
\* the Actionable Comments list it renders is empty, and with the
\* needs-attention verdict otherwise.
C22_VerdictMatchesRenderedList ==
  sRun.n > 0 =>
    LET r == Last(reviews)
    IN /\ r.body[1] \in {"LGTM!", "Pull request needs attention."}
       /\ r.body[1] = "LGTM!" <=> Len(r.actionable) = 0

\* C35: every finding handed to the dedup, from the previous summary or from
\* this run, is still represented in the merged list by a finding with its
\* (file, start_line, end_line, header): findings whose tuples differ are
\* never collapsed into one.
C35_DistinctTuplesKept ==
  sRun.n > 0 =>
    /\ \A c \in Range(sRun.previous.actionable \o sRun.lineComments) :
         \E m \in Range(sRun.uniqueActionable) : Key(m) = Key(c)
    /\ \A c \in Range(sRun.previous.skipped \o sRun.skippedComments) :
         \E m \in Range(sRun.uniqueSkipped) : Key(m) = Key(c)

----------------------------------------------------------------------------
(* SpecSubmit: one call of submitReview (pull_request.ts 295-409), one      *)
(* action per await; every host call either succeeds or rejects.            *)

\* !c.end_line
NoEndLine(c) == c.end_line = Undefined \/ c.end_line = 0 \/ c.end_line = NaN

\* the numbers of a set, ascending, as a sequence
InOrder(K) == [j \in 1..Cardinality(K) |-> KthOf(K, j)]

\* comments.filter((c) => !c.end_line), as positions of comments
FileCommentIdx(cs) == InOrder({ k \in 1..Len(cs) : NoEndLine(cs[k]) })

\* lines 341-349, as positions of comments: the loop runs over all comments
LineCommentIdx(cs) ==
  InOrder({ k \in 1..Len(cs) : cs[k].critical \/ cs[k].label = <<"typo">> })

SkippedCommentIdx(cs) ==
  InOrder({ k \in 1..Len(cs) : ~(cs[k].critical \/ cs[k].label = <<"typo">>) })

\* the comments at the positions idx
Pick(cs, idx) == [j \in 1..Len(idx) |-> cs[idx[j]]]

AttemptsUntilRejection(outs) ==
  IF \A j \in 1..Len(outs) : outs[j] THEN Len(outs)
  ELSE Min({ j \in 1..Len(outs) : ~outs[j] })

\* xs.map(c => submitInlineComment(...)): how many of the calls are made,
\* outs being their outcomes; every call is started before any is awaited
Attempts(outs) == Len(outs)

SettlesRejected(outs) == \E j \in 1..Len(outs) : ~outs[j]

\* await Promise.allSettled(...): whether the await raises
SettleRaises(outs) == FALSE

\* the line submitInlineComment is given for a file comment
FileCommentLine == -1

Call(op, k, line, items, ok) ==
  [op |-> op, k |-> k, line |-> line, items |-> items, ok |-> ok]

\* the createReviewComment calls of one tier: positions idx of cs, outcomes outs
RECURSIVE InlineCalls(_, _, _, _, _)
InlineCalls(cs, idx, outs, fileTier, n) ==
  IF n = 0 THEN <<>>
  ELSE Append(InlineCalls(cs, idx, outs, fileTier, n - 1),
              Call("createReviewComment", idx[n],
                   IF fileTier THEN FileCommentLine ELSE cs[idx[n]].end_line,
                   <<>>, outs[n]))

FF  == Finding(<<"a">>, 5, Undefined, <<"nit">>, <<"w">>, FALSE)
FFC == Finding(<<"b">>, 1, Undefined, <<"bug">>, <<"v">>, TRUE)

\* the comments handed to submitReview
SubmitInputs ==
  { <<>>, <<FS>>, <<FA, FS>>, <<FA, FB, FS2>>, <<FF, FA, FF>>, <<FF, FFC, FB>> }

StartSub(cs) ==
  [pc |-> "fileComments", comments |-> cs, calls |-> <<>>, outcome |-> ""]

SubmitInit ==
  /\ sub \in { StartSub(cs) : cs \in SubmitInputs }
  /\ reviews \in { <<>>, <<HeadedReview>> }
  /\ sRun = NoRun /\ tk = <<>>
  /\ cPc = "unused" /\ cIn = <<>> /\ cSummary = <<>> /\ cBody = <<>>
  /\ cOut = [caught |-> FALSE, defined |-> TRUE, commitsReviewed |-> <<>>]
  /\ hostCommits = <<>> /\ comments = <<>> /\ local = <<>> /\ lastWritten = <<>>

\* lines 326-338: the file comments, each through createReviewComment
FileCommentsStep ==
  LET idx == FileCommentIdx(sub.comments)
  IN /\ sub.pc = "fileComments"
     /\ \E outs \in [1..Len(idx) -> BOOLEAN] :
          sub' = [sub EXCEPT
            !.calls = @ \o InlineCalls(sub.comments, idx, outs, TRUE, Attempts(outs)),
            !.pc = IF SettleRaises(outs) THEN "done" ELSE "batch",
            !.outcome = IF SettleRaises(outs) THEN "threw" ELSE ""]
     /\ UNCHANGED <<reviews, sRun, tk, codecVars, prVars>>

\* the calls of the try block, lines 352-397, failedAt being the one that
\* rejects ("none" when all succeed)
BatchCalls(cs, failedAt) ==
  <<Call("listReviews", 0, 0, <<>>, failedAt # "listReviews")>>
    \o (IF failedAt = "listReviews" THEN <<>>
        ELSE <<Call("createReview", 0, 0, LineCommentIdx(cs), failedAt # "createReview")>>)
    \o (IF failedAt \in {"listReviews", "createReview"} THEN <<>>
        ELSE <<Call("submitReview", 0, 0, <<>>, failedAt # "submitReview")>>)

\* lines 340-400: the split, then the review created and submitted at once
BatchStep ==
  LET cs == sub.comments
      k == FindLastReview(reviews)
  IN /\ sub.pc = "batch"
     /\ \E failedAt \in {"none", "listReviews", "createReview", "submitReview"} :
          /\ sub' = [sub EXCEPT
               !.calls = @ \o BatchCalls(cs, failedAt),
               !.pc = IF failedAt = "none" THEN "done" ELSE "fallback",
               !.outcome = IF failedAt = "none" THEN "returned" ELSE ""]
          /\ reviews' =
               IF failedAt # "none" THEN reviews
               ELSE \* the review is submitted with the new summary as its body
                 Append(reviews,
                   [NoReview EXCEPT
                      !.own = TRUE,
                      !.body = buildReviewSummary(SummaryFiles, <<Commit(1)>>,
                                 Pick(cs, LineCommentIdx(cs)), Pick(cs, SkippedCommentIdx(cs)),
                                 k # 0, IF k = 0 THEN <<>> ELSE reviews[k].body).body])
     /\ UNCHANGED <<sRun, tk, codecVars, prVars>>

\* lines 401-407: the line comments one by one
FallbackStep ==
  LET idx == LineCommentIdx(sub.comments)
  IN /\ sub.pc = "fallback"
     /\ \E outs \in [1..Len(idx) -> BOOLEAN] :
          sub' = [sub EXCEPT
            !.calls = @ \o InlineCalls(sub.comments, idx, outs, FALSE, Attempts(outs)),
            !.pc = "done",
            !.outcome = IF SettleRaises(outs) THEN "threw" ELSE "returned"]
     /\ UNCHANGED <<reviews, sRun, tk, codecVars, prVars>>

SubmitNext == FileCommentsStep \/ BatchStep \/ FallbackStep

SpecSubmit == SubmitInit /\ [][SubmitNext]_vars

----------------------------------------------------------------------------
(* Properties of submitReview. *)

\* the positions in the call log of the createReviewComment calls for comment k
InlinePositions(k) ==
  { p \in 1..Len(sub.calls) :
      sub.calls[p].op = "createReviewComment" /\ sub.calls[p].k = k }

\* the position in the call log of the rejected call of the try block, 0
\* when there is none
BatchFailure ==
  LET F == { p \in 1..Len(sub.calls) :
               /\ sub.calls[p].op \in {"listReviews", "createReview", "submitReview"}
               /\ ~sub.calls[p].ok }
  IN IF F = {} THEN 0 ELSE Min(F)

\* C16: once lines 326-338 have run, every finding without end_line has had
\* its own createReviewComment call as a file comment, whatever the outcome
\* of the others; no rejection raises out of submitReview, and the batch of
\* line comments is attempted afterwards.
C16_FileCommentsAllSettled ==
  /\ sub.pc # "fileComments" =>
       \A k \in 1..Len(sub.comments) :
         NoEndLine(sub.comments[k]) =>
           Cardinality({ p \in InlinePositions(k) :
                           sub.calls[p].line = FileCommentLine }) = 1
  /\ sub.outcome # "threw"
  /\ sub.pc = "done" => \E p \in 1..Len(sub.calls) : sub.calls[p].op = "listReviews"

\* two file comments, the first rejected, the second posted, and the batch
\* submitted after them
C16_Witness ==
  /\ sub.pc = "done" /\ sub.outcome = "returned"
  /\ Len(FileCommentIdx(sub.comments)) = 2
  /\ sub.calls[1].op = "createReviewComment" /\ ~sub.calls[1].ok
  /\ sub.calls[2].op = "createReviewComment" /\ sub.calls[2].ok
  /\ BatchFailure = 0

\* C17: a finding that is neither critical nor a typo is never sent to the
\* host as an inline comment: it is in no createReview batch and has no
\* createReviewComment call.
C17_SkippedNeverPosted ==
  \A k \in 1..Len(sub.comments) :
    ~(sub.comments[k].critical \/ sub.comments[k].label = <<"typo">>) =>
      /\ InlinePositions(k) = {}
      /\ \A p \in 1..Len(sub.calls) :
           sub.calls[p].op = "createReview" => k \notin Range(sub.calls[p].items)

\* C18: when a call of the try block has rejected and submitReview is over,
\* the calls after the rejected one are one createReviewComment per line
\* comment, in order, each made whatever the outcome of the others, and
\* nothing else; submitReview has returned normally.
C18_FallbackOncePerLineComment ==
  (sub.pc = "done" /\ BatchFailure # 0) =>
    LET idx == LineCommentIdx(sub.comments)
    IN /\ sub.outcome = "returned"
       /\ Len(sub.calls) = BatchFailure + Len(idx)
       /\ \A j \in 1..Len(idx) :
            LET c == sub.calls[BatchFailure + j]
            IN /\ c.op = "createReviewComment"
               /\ c.k = idx[j]
               /\ c.line = sub.comments[idx[j]].end_line

\* submitReview rejected after createReview succeeded; of the two line
\* comments tried one by one the first was rejected and the second posted
C18_Witness ==
  /\ sub.pc = "done" /\ sub.outcome = "returned"
  /\ BatchFailure # 0 /\ sub.calls[BatchFailure].op = "submitReview"
  /\ Len(LineCommentIdx(sub.comments)) = 2
  /\ ~sub.calls[BatchFailure + 1].ok
  /\ sub.calls[BatchFailure + 2].ok

\* C32: once the split of lines 340-349 has been used, a finding without
\* end_line has gone the file-level route only: it is in no createReview
\* batch, it is not among the skipped comments handed to the summary, and its
\* only createReviewComment call is the file-level one.
C32_OneRoutePerFinding ==
  sub.pc \in {"fallback", "done"} =>
    \A k \in 1..Len(sub.comments) :
      NoEndLine(sub.comments[k]) =>
        /\ \A p \in 1..Len(sub.calls) :
             sub.calls[p].op = "createReview" => k \notin Range(sub.calls[p].items)
        /\ k \notin Range(SkippedCommentIdx(sub.comments))
        /\ \A p \in InlinePositions(k) : sub.calls[p].line = FileCommentLine
        /\ Cardinality(InlinePositions(k)) = 1

\* C33: within one call of submitReview no finding that has an end_line is
\* created on the host by more than one successful call, a createReview
\* whose batch holds it or a createReviewComment for it.
C33_LineCommentCreatedOnce ==
  \A k \in 1..Len(sub.comments) :
    ~NoEndLine(sub.comments[k]) =>
      Cardinality({ p \in 1..Len(sub.calls) :
                      /\ sub.calls[p].ok
                      /\ \/ /\ sub.calls[p].op = "createReview"
                            /\ k \in Range(sub.calls[p].items)
                         \/ /\ sub.calls[p].op = "createReviewComment"
                            /\ sub.calls[p].k = k }) <= 1

\* C34: when submitReview has returned, the PR holds a review submitted by
\* this run whose body has the Review Summary heading, whether the batch
\* went through or the line comments were posted one by one.
C34_SummaryAlwaysSubmitted ==
  (sub.pc = "done" /\ sub.outcome = "returned") =>
    \E k \in 1..Len(reviews) :
      /\ reviews[k].own
      /\ Includes(reviews[k].body, <<"###", " ", "Review Summary">>)

----------------------------------------------------------------------------
(* SpecOverlap: two invocations of handlePullRequest on one PR whose awaits *)
(* interleave (two webhook deliveries, two workflow runs), each on the      *)
(* review path, while the author may push.  Nothing in the code serialises  *)
(* them.                                                                    *)

\* the PR before the two deliveries: reviewed up to its one commit, or not
\* reviewed yet
OverlapInit ==
  /\ hostCommits = <<ShaPool[1]>>
  /\ \E reviewed \in BOOLEAN :
       /\ comments =
            << [id |-> 1, body |-> <<"please", " ", "review">>] >>
              \o (IF reviewed
                    THEN << [id |-> 2,
                             body |-> buildOverviewMessage(<<"t", NL, "s">>, <<ShaPool[1]>>)] >>
                    ELSE <<>>)
       /\ lastWritten = IF reviewed THEN <<ShaPool[1]>> ELSE <<>>
  /\ local = [i \in Invs |-> Idle]
  /\ cPc = "unused" /\ cIn = <<>> /\ cSummary = <<>> /\ cBody = <<>>
  /\ cOut = [caught |-> FALSE, defined |-> TRUE, commitsReviewed |-> <<>>]
  /\ reviews = <<>> /\ sRun = <<>> /\ sub = <<>> /\ tk = <<>>

\* a commit is pushed, whatever the invocations are doing
PushDuringRun ==
  /\ Len(hostCommits) < MaxCommits
  /\ hostCommits' = Append(hostCommits, ShaPool[Len(hostCommits) + 1])
  /\ UNCHANGED <<comments, local, lastWritten, codecVars, sumVars>>

OverlapNext ==
  \/ \E i \in Invs :
       StartBody(i, Event("pull_request", TRUE, "synchronize", PlainBody, PlainTitle))
  \/ \E i \in Invs : ListCommits(i)
  \/ \E i \in Invs : ListComments(i)
  \/ \E i \in Invs : ListFilesStep(i)
  \/ \E i \in Invs : Recover(i)
  \/ \E i \in Invs : Decide(i)
  \/ \E i \in Invs : Loading(i)
  \/ \E i \in Invs : Summarize(i)
  \/ \E i \in Invs : FinalOverview(i)
  \/ \E i \in Invs : Review(i)
  \/ \E i \in Invs : SubmitReviewStep(i)
  \/ PushDuringRun

SpecOverlap == OverlapInit /\ [][OverlapNext]_vars

----------------------------------------------------------------------------
(* Properties of overlapping invocations. *)

\* C26: whatever the interleaving of two overlapping invocations, the PR
\* holds at most one comment with the overview signature.
C26_OneOverviewUnderOverlap ==
  Cardinality(OverviewComments(comments)) <= 1

\* C27: the overview is written last-writer-wins as a full replace: the
\* final overview write of an invocation puts into its overview comment the
\* payload of the commits that invocation fetched, whatever payload the
\* comment held, so a later write of a shorter list drops the commits an
\* earlier write had recorded.
C27_LastWriterWins ==
  [][\A i \in Invs :
       (local[i].pc = "final" /\ local'[i].pc = "review")
         => \E k \in 1..Len(comments') :
              /\ comments'[k].id = local[i].overviewId
              /\ comments'[k].body = buildOverviewMessage(local[i].summary, local[i].commits)
              /\ DecodePayload(comments'[k].body).commitsReviewed = local[i].commits]_vars

\* two invocations read the same overview comment and reviewed the same
\* commit; the one that fetched three commits completed, and the one that
\* fetched two then wrote its payload, which lacks the third commit
C27_Witness ==
  \E i, j \in Invs :
    LET a == local[i]
        b == local[j]
        k == FindOverview(comments)
    IN /\ i # j
       /\ a.pc = "done" /\ a.outcome = "returned:complete"
       /\ b.pc \in {"review", "submit", "done"} /\ HasCalled(b, {"updateComment"})
       /\ a.overviewBody # <<>> /\ a.overviewBody = b.overviewBody
       /\ a.overviewId = b.overviewId
       /\ Range(a.commitsToReview) \cap Range(b.commitsToReview) # {}
       /\ Len(a.commits) = 3 /\ Len(b.commits) = 2
       /\ k # 0 /\ comments[k].id = a.overviewId
       /\ DecodePayload(comments[k].body).commitsReviewed = b.commits
       /\ ShaPool[3] \in Range(a.commitsToReview)
       /\ ShaPool[3] \notin Range(DecodePayload(comments[k].body).commitsReviewed)

----------------------------------------------------------------------------
(* jira.ts: the tracker functions handlePullRequest calls.  Each fetch gets *)
(* one answer of the tracker; outs lists the answers in the order the       *)
(* requests are made and p is the position of the next one.  An operator    *)
(* gives [val, raised, next]: what the function returns, whether it raises  *)
(* instead, and the position after its last request.                        *)

MaxCalls == 5

\* the answers to one fetch: "ok" and "alt" are the two kinds of successful
\* response the caller tells apart (a ticket that is no Epic and is not
\* shipped / an Epic, a shipped ticket; a hit / no hit; a transition to the
\* target state / none), "status" is a response with ok false, "network" a
\* rejected fetch
TrackerAnswers == {"ok", "alt", "status", "network"}

\* !response.ok, or fetch rejected: the try block raises
Failed(o) == o \in {"status", "network"}

Out(outs, p) == IF p <= Len(outs) THEN outs[p] ELSE "network"

Res(val, raised, next) == [val |-> val, raised |-> raised, next |-> next]

Rethrow(r, val) == r

\* try { r } catch (error) { warning(...); return val }
Catch(r, val) == IF r.raised THEN Res(val, FALSE, r.next) ELSE r

\* lines 436-454: the ticket's type, "null" after a failure
getJiraTicket(outs, p) ==
  Catch(Res(IF Out(outs, p) = "ok" THEN "Task" ELSE "Epic", Failed(Out(outs, p)), p + 1),
        "null")

\* lines 545-553
isEpic(outs, p) ==
  LET t == getJiraTicket(outs, p)
  IN Catch(Res(IF t.val = "Epic" THEN "true" ELSE "false", t.raised, t.next), "false")

\* lines 520-543
associateTicketWithEpic(outs, p) ==
  Catch(Res("void", Failed(Out(outs, p)), p + 1), "void")

\* lines 456-503
findEpicBySemanticMatch(outs, p) ==
  Catch(Res(IF Out(outs, p) = "ok" THEN "EPIC-1" ELSE "null", Failed(Out(outs, p)), p + 1),
        "null")

\* lines 416-434: the failure is raised again
getAvailableTransitions(outs, p) ==
  Res(IF Out(outs, p) = "ok" THEN "found" ELSE "none", Failed(Out(outs, p)), p + 1)

\* lines 385-414: the failure is raised again
transitionTicket(outs, p) ==
  LET t == getAvailableTransitions(outs, p)
  IN IF t.raised THEN Res("void", TRUE, t.next)
     ELSE IF t.val = "none" THEN Res("void", FALSE, t.next)
     ELSE Res("void", Failed(Out(outs, t.next)), t.next + 1)

\* lines 322-330
getTicketType(outs, p) == Catch(getJiraTicket(outs, p), "null")

\* lines 332-340: the ticket's status is the target state
isTicketInState(outs, p) ==
  LET t == getJiraTicket(outs, p)
  IN Catch(Res(IF Out(outs, p) = "alt" THEN "true" ELSE "false", t.raised, t.next), "false")

\* the ticket keys a branch name can hold
BranchKeys == <<"PROJ-1", "PROJ-2">>

\* lines 66-73: the other keys of the branch name, from the j-th on; gives
\* the position after the last request
RECURSIVE OtherTickets(_, _, _, _, _)
OtherTickets(n, i, j, outs, p) ==
  IF j > n THEN p
  ELSE IF j = i THEN OtherTickets(n, i, j + 1, outs, p)
  ELSE LET other == getJiraTicket(outs, p)
           e == isEpic(outs, other.next)
       IN IF other.val = "null" THEN OtherTickets(n, i, j + 1, outs, other.next)
          ELSE IF e.val = "true"
            THEN OtherTickets(n, i, j + 1, outs, associateTicketWithEpic(outs, e.next).next)
          ELSE OtherTickets(n, i, j + 1, outs, e.next)

\* lines 61-81 (and 82-93 for a single key): the keys from the i-th on
RECURSIVE TicketFrom(_, _, _, _)
TicketFrom(n, i, outs, p) ==
  IF i > n THEN Res("null", FALSE, p)
  ELSE LET ticket == getJiraTicket(outs, p)
       IN IF ticket.val # "null"
            THEN Res(BranchKeys[i], FALSE, OtherTickets(n, i, 1, outs, ticket.next))
            ELSE TicketFrom(n, i + 1, outs, ticket.next)

\* lines 52-98, n being the number of keys in the branch name
findTicketFromBranch(n, outs, p) == TicketFrom(n, 1, outs, p)

\* lines 100-127
searchRelatedTickets(outs, p) ==
  Catch(Res(IF Out(outs, p) = "ok" THEN "PROJ-7" ELSE "null", Failed(Out(outs, p)), p + 1),
        "null")

\* lines 129-288 as handlePullRequest calls it (line 95 of pull_request.ts,
\* without githubUsername): create, link to an Epic, move to In Review
createJiraTicket(outs, p) ==
  LET epic == findEpicBySemanticMatch(outs, p + 1)
      linked == IF epic.val = "null" THEN epic.next
                ELSE associateTicketWithEpic(outs, epic.next).next
      moved == transitionTicket(outs, linked)
  IN Catch(IF Failed(Out(outs, p)) THEN Res("null", TRUE, p + 1)
           ELSE Res("NEW-1", moved.raised, moved.next),
           "null")

\* lines 342-383
updateTicketState(merged, outs, p) ==
  LET type == getTicketType(outs, p)
      inState == isTicketInState(outs, type.next)
  IN IF ~merged THEN Res("void", FALSE, p)
     ELSE IF type.val = "Epic" THEN Res("void", FALSE, type.next)
     ELSE IF inState.val = "true" THEN Res("void", FALSE, inState.next)
     ELSE Catch(transitionTicket(outs, inState.next), "void")

----------------------------------------------------------------------------
(* SpecTracker: one call of a tracker function, the tracker answering each  *)
(* request in any of the four ways.                                         *)

TrackerInit ==
  /\ \E fn \in {"findTicketFromBranch", "searchRelatedTickets",
                 "createJiraTicket", "updateTicketState"},
        n \in 0..Len(BranchKeys), merged \in BOOLEAN,
        outs \in [1..MaxCalls -> TrackerAnswers] :
       /\ fn # "findTicketFromBranch" => n = 0
       /\ fn # "updateTicketState" => merged
       /\ tk = [fn |-> fn, n |-> n, merged |-> merged, outs |-> outs,
                pc |-> "called", val |-> "", raised |-> FALSE, made |-> 0]
  /\ reviews = <<>> /\ sRun = <<>> /\ sub = <<>>
  /\ cPc = "unused" /\ cIn = <<>> /\ cSummary = <<>> /\ cBody = <<>>
  /\ cOut = [caught |-> FALSE, defined |-> TRUE, commitsReviewed |-> <<>>]
  /\ hostCommits = <<>> /\ comments = <<>> /\ local = <<>> /\ lastWritten = <<>>

\* the call runs to its end
TrackerCall ==
  /\ tk.pc = "called"
  /\ LET r == CASE tk.fn = "findTicketFromBranch" -> findTicketFromBranch(tk.n, tk.outs, 1)
                 [] tk.fn = "searchRelatedTickets" -> searchRelatedTickets(tk.outs, 1)
                 [] tk.fn = "createJiraTicket" -> createJiraTicket(tk.outs, 1)
                 [] OTHER -> updateTicketState(tk.merged, tk.outs, 1)
     IN tk' = [tk EXCEPT !.pc = IF r.raised THEN "raised" ELSE "returned",
                         !.val = r.val, !.raised = r.raised, !.made = r.next - 1]
  /\ UNCHANGED <<codecVars, prVars, reviews, sRun, sub>>

TrackerNext == TrackerCall

SpecTracker == TrackerInit /\ [][TrackerNext]_vars

----------------------------------------------------------------------------
(* Properties of the tracker functions. *)

\* C28 as stated: with a failing tracker call inside, no function raises,
\* the lookup and creation functions return null and updateTicketState
\* returns normally.
C28_TrackerFailureGivesNull ==
  (tk.pc # "called" /\ \E p \in 1..tk.made : Failed(Out(tk.outs, p)))
    => /\ ~tk.raised
       /\ tk.fn = "updateTicketState" => tk.val = "void"
       /\ tk.fn # "updateTicketState" => tk.val = "null"

\* C28: no tracker function raises, whatever the tracker answers, and
\* updateTicketState returns normally; searchRelatedTickets and
\* createJiraTicket return null when their own search or create request
\* fails, createJiraTicket also when the move to In Review fails, and
\* findTicketFromBranch returns null when every request it made failed.
C28_TrackerFailureNeverRaises ==
  tk.pc # "called"
    => /\ ~tk.raised /\ tk.pc = "returned"
       /\ tk.fn = "updateTicketState" => tk.val = "void"
       /\ (tk.fn \in {"searchRelatedTickets", "createJiraTicket"} /\ Failed(tk.outs[1]))
            => tk.val = "null"
       /\ (tk.fn = "createJiraTicket" /\ Failed(Out(tk.outs, tk.made)))
            => tk.val = "null"
       /\ (tk.fn = "findTicketFromBranch"
              /\ \A p \in 1..tk.made : Failed(Out(tk.outs, p)))
            => tk.val = "null"

\* a merge whose transition request was refused: updateTicketState returned
C28_Witness ==
  /\ tk.pc = "returned" /\ tk.fn = "updateTicketState" /\ tk.merged
  /\ tk.made = 4 /\ tk.outs[3] = "ok" /\ tk.outs[4] = "status"
  /\ tk.val = "void"

\* C38: createJiraTicket returns the new key whenever its create request
\* succeeded, whatever became of the Epic link and of the move to In Review,
\* and returns null only when the create request failed.
C38_CreatedKeyReturned ==
  (tk.pc # "called" /\ tk.fn = "createJiraTicket")
    => /\ ~tk.raised
       /\ Failed(tk.outs[1]) => tk.val = "null"
       /\ ~Failed(tk.outs[1]) => tk.val = "NEW-1"

====
